---- MODULE Spec2Model ----
(***************************************************************************)
(* Model of the inkora-reader API server: the unified manhwa provider      *)
(* (fallback over PROVIDERS, routes/manhwa/unified) and its response       *)
(* validators; the TTL caches of the comixto, AniList, MangaUpdates and    *)
(* mgeko routes; fetchWithRetry and the shared rate limiter of             *)
(* utils/proxy; the shared BrowserService, its scraping operations and     *)
(* HianimeScraper; the playlist rewriting of routes/proxy, the page lists  *)
(* of the read routes and the confidence of the /match routes, as pure     *)
(* functions; comixto GET /info/:id.  Each part has its own specification, *)
(* in which the variables of the other parts stay at their initial values. *)
(*                                                                         *)
(* JSON values are tagged records [t |-> tag, v |-> value]; strings are    *)
(* sequences of one-character strings so that String.prototype.trim can be *)
(* computed.                                                               *)
(***************************************************************************)
EXTENDS Integers, Sequences, FiniteSets, TLC

VARIABLES
  PROVIDERS,   \* the module-level provider array of the unified routes
  phase,       \* position of the unified handler: "idle", "trying", "done"
  req,         \* the request being served: [op, arg, page, preferred]
  order,       \* the provider order of this call (providerOrder / PROVIDERS)
  idx,         \* index in order of the provider the loop is at
  attempts,    \* log of fetchFromProvider calls of this call, oldest first
  errors,      \* the handler's errors array
  reply,       \* what the handler sent (NoReply until it did)
  prevInfo,    \* the last 200 reply of unified /info sent before this call
  vOp,         \* function under test: "info", "read", "search" (validators),
               \* "stream", "pages", "mu-match", "anilist-match"
  candidate,   \* the value handed to the validator
  verdict,     \* what the validator did: "none", "true", "false", "TypeError";
               \* of the other functions: Null, then the value computed
  route,       \* the cached route under study: one of Routes ("none": idle)
  now,         \* Date.now(), in ms since the server started
  cache,       \* comixto: the Map behind fetchApi
  anilistCache,\* AniList: the Map behind /search, /info, /match
  muCache,     \* MangaUpdates: the Map behind /search, /info
  genreCache,  \* mgeko: the Map behind /genre/:slug
  calls,       \* per caller: position in the handler, its key, what it saw and did
  fillReply,   \* history: per cache key, the answer of the call that stored the entry
  finished,    \* history: the callers whose current call completed, oldest first
  fwOptions,   \* fetchWithRetry: the options it was called with
  fwPc,        \* fetchWithRetry: "idle", "get", "sleep", "returned", "thrown"
  attempt,     \* fetchWithRetry: the loop counter
  lastError,   \* fetchWithRetry: the last error caught
  fwResult,    \* fetchWithRetry: what it returned or threw
  outcomes,    \* history: how each client.get of this call settled, oldest first
  waits,       \* history: the delays slept between attempts, oldest first
  clock,       \* rate limiter: Date.now(), in ms
  lastRequest, \* rate limiter: RateLimiter.lastRequest
  waiters,     \* rate limiter: per caller, its position in wait() and its timer
  completions, \* history: the times at which calls of wait() completed
  browser,     \* BrowserService.browser: NoBrowser (null) or a browser process
  live,        \* the browser processes that were launched and not closed
  launches,    \* the number of browser processes launched so far
  tasks,       \* per caller: its position in launch / getPage / close
  job,         \* the scrape in progress: its operation, position, page, result
  openPages,   \* the pages that were opened for scrapes and not closed
  opened,      \* the number of pages opened for scrapes so far
  requests,    \* history: per intercepted request of the job's page, the
               \* resolutions its handlers called, in order
  info         \* comixto /info/:id: the handler's position, locals and reply

uniVars == <<PROVIDERS, phase, req, order, idx, attempts, errors, reply, prevInfo>>
valVars == <<vOp, candidate, verdict>>
cacheVars == <<route, now, cache, anilistCache, muCache, genreCache, calls,
               fillReply, finished>>
retryVars == <<fwOptions, fwPc, attempt, lastError, fwResult, outcomes, waits>>
limVars == <<clock, lastRequest, waiters, completions>>
brVars == <<browser, live, launches, tasks>>
scrVars == <<job, openPages, opened, requests>>
cxVars == <<info>>
vars == <<uniVars, valVars, cacheVars, retryVars, limVars, brVars, scrVars,
          cxVars>>

(***************************************************************************)
(* Bounds of the model.                                                    *)
(***************************************************************************)
MaxStrLen == 2
MaxPages == 2
MaxChapters == 2
MaxResults == 2
MaxTicks == 2
MaxAttempts == 3
MaxWaits == 4
MaxClockTicks == 4
MaxBrowsers == 3
MaxScrapes == 2
MaxResponses == 2
MaxRequests == 1
MaxRaw == 3

(***************************************************************************)
(* JSON values and the JavaScript operations the validators apply to them. *)
(***************************************************************************)
Undefined == [t |-> "undefined", v |-> 0]
Null == [t |-> "null", v |-> 0]
Num(n) == [t |-> "number", v |-> n]
Str(s) == [t |-> "string", v |-> s]
Arr(a) == [t |-> "array", v |-> a]
Obj(fields) == [t |-> "object", v |-> fields]

\* !x is false
Truthy(x) ==
  CASE x.t = "undefined" -> FALSE
    [] x.t = "null" -> FALSE
    [] x.t = "number" -> x.v # 0
    [] x.t = "string" -> x.v # <<>>
    [] OTHER -> TRUE

\* x.f for a value x that is neither null nor undefined
Get(x, f) ==
  IF x.t = "object" /\ f \in DOMAIN x.v THEN x.v[f] ELSE Undefined

IsArray(x) == x.t = "array"

IsWhiteSpace(c) == c = " "

RECURSIVE TrimStart(_)
TrimStart(s) ==
  IF s = <<>> THEN <<>>
  ELSE IF IsWhiteSpace(Head(s)) THEN TrimStart(Tail(s)) ELSE s

RECURSIVE TrimEnd(_)
TrimEnd(s) ==
  IF s = <<>> THEN <<>>
  ELSE IF IsWhiteSpace(s[Len(s)]) THEN TrimEnd(SubSeq(s, 1, Len(s) - 1)) ELSE s

\* String.prototype.trim
Trim(s) == TrimEnd(TrimStart(s))

(***************************************************************************)
(* The validators of the unified routes.  Each returns "true" or "false",  *)
(* or "TypeError" where the JavaScript throws.                             *)
(***************************************************************************)
isValidManhwaInfoNoTrim(data) ==
  IF ~Truthy(data) THEN "false"
  ELSE LET title == Get(data, "title")
           chapters == Get(data, "chapters") IN
    IF ~Truthy(title) THEN "false"
    ELSE IF title.t # "string" THEN "TypeError"
    ELSE IF ~Truthy(chapters) \/ ~IsArray(chapters) THEN "false"
    ELSE IF Len(chapters.v) = 0 THEN "false"
    ELSE "true"

isValidManhwaInfo(data) ==
  IF ~Truthy(data) THEN "false"
  ELSE LET title == Get(data, "title")
           chapters == Get(data, "chapters") IN
    IF ~Truthy(title) THEN "false"
    ELSE IF title.t # "string" THEN "TypeError"
    ELSE IF Trim(title.v) = <<>> THEN "false"
    ELSE IF ~Truthy(chapters) \/ ~IsArray(chapters) THEN "false"
    ELSE IF Len(chapters.v) = 0 THEN "false"
    ELSE "true"

isValidSearchResultsAcceptingEmpty(data) ==
  IF ~Truthy(data) THEN "false"
  ELSE LET results == Get(data, "results") IN
    IF ~Truthy(results) \/ ~IsArray(results) THEN "false"
    ELSE IF Len(results.v) >= 0 THEN "true" ELSE "false"

isValidSearchResults(data) ==
  IF ~Truthy(data) THEN "false"
  ELSE LET results == Get(data, "results") IN
    IF ~Truthy(results) \/ ~IsArray(results) THEN "false"
    ELSE IF Len(results.v) > 0 THEN "true" ELSE "false"

\* the callback of data.some: page.img && page.img.trim() !== ''
PageHasImage(page) ==
  IF page.t \in {"null", "undefined"} THEN "TypeError"
  ELSE LET img == Get(page, "img") IN
    IF ~Truthy(img) THEN "false"
    ELSE IF img.t # "string" THEN "TypeError"
    ELSE IF Trim(img.v) # <<>> THEN "true" ELSE "false"

\* Array.prototype.some: stops at the first page the callback accepts
RECURSIVE Some(_)
Some(pages) ==
  IF pages = <<>> THEN "false"
  ELSE LET r == PageHasImage(Head(pages)) IN
    IF r = "false" THEN Some(Tail(pages)) ELSE r

isValidChapterPagesFirstOnly(data) ==
  IF ~Truthy(data) \/ ~IsArray(data) THEN "false"
  ELSE IF Len(data.v) = 0 THEN "false"
  ELSE PageHasImage(data.v[1])

isValidChapterPages(data) ==
  IF ~Truthy(data) \/ ~IsArray(data) THEN "false"
  ELSE IF Len(data.v) = 0 THEN "false"
  ELSE Some(data.v)

(***************************************************************************)
(* The validators as pure functions: candidates of bounded size.           *)
(***************************************************************************)
Strings(n) == UNION {[1..k -> {" ", "a"}] : k \in 0..n}

\* a list of n objects with ids 1..n
Items(n) == [i \in 1..n |-> Obj([id |-> Num(i)])]

InfoCandidates ==
  {Null} \cup
    {Obj([title |-> t, chapters |-> c]) :
       t \in {Undefined, Num(7)} \cup {Str(s) : s \in Strings(MaxStrLen)},
       c \in {Undefined, Str(<<"a">>)}
               \cup {Arr(Items(n)) : n \in 0..MaxChapters}}

ReadCandidates ==
  {Null, Obj([message |-> Str(<<"a">>)])}
    \cup {Arr(ps) :
            ps \in UNION {[1..k ->
                             {Null} \cup
                               {Obj([img |-> i]) :
                                  i \in {Undefined, Num(7)}
                                          \cup {Str(s) : s \in Strings(MaxStrLen)}}] :
                           k \in 0..MaxPages}}

SearchCandidates ==
  {Null} \cup {Obj([results |-> r]) :
                 r \in {Undefined, Str(<<"a">>)} \cup {Arr(Items(n)) : n \in 0..MaxResults}}

ValidateInfo ==
  /\ vOp = "info" /\ verdict = "none"
  /\ verdict' = isValidManhwaInfo(candidate)
  /\ UNCHANGED <<vOp, candidate>>
  /\ UNCHANGED <<uniVars, cacheVars, retryVars, limVars, brVars,
                 scrVars, cxVars>>

ValidateRead ==
  /\ vOp = "read" /\ verdict = "none"
  /\ verdict' = isValidChapterPages(candidate)
  /\ UNCHANGED <<vOp, candidate>>
  /\ UNCHANGED <<uniVars, cacheVars, retryVars, limVars, brVars,
                 scrVars, cxVars>>

ValidateSearch ==
  /\ vOp = "search" /\ verdict = "none"
  /\ verdict' = isValidSearchResults(candidate)
  /\ UNCHANGED <<vOp, candidate>>
  /\ UNCHANGED <<uniVars, cacheVars, retryVars, limVars, brVars,
                 scrVars, cxVars>>

(***************************************************************************)
(* The unified provider routes.                                            *)
(***************************************************************************)
InitialProviders ==
  << [name |-> "manhuaplus", baseUrl |-> "/manhwa/manhuaplus", priority |-> 1],
     [name |-> "manhuaus", baseUrl |-> "/manhwa/manhuaus", priority |-> 2] >>

NoReply == [status |-> 0]

NoInfo == [id |-> "", reply |-> NoReply]

\* query values; "" is a missing (or empty) parameter
Ids == {"solo-leveling", "tower-of-god"}
PageParams == {"", "2", "x"}

\* parseInt on the page strings of the model; NaN is sent as JSON null
ParseInt(s) ==
  CASE s = "1" -> Num(1)
    [] s = "2" -> Num(2)
    [] OTHER -> Null

\* what fastify.inject does: it rejects, or resolves to a response whose
\* payload is JSON text (Unparseable: text JSON.parse throws on)
Unparseable == [t |-> "unparseable", v |-> 0]

Rejects == [kind |-> "throws", message |-> "socket hang up"]

Response(code, payload) == [kind |-> "response", statusCode |-> code, payload |-> payload]

Failures ==
  {Rejects, Response(404, Null), Response(500, Null), Response(200, Unparseable)}

Page(img) == Obj([img |-> img])

InfoOutcomes ==
  Failures \cup
  {Response(200, d) : d \in
      { Null,
        Obj([title |-> Str(<<"a">>), chapters |-> Arr(Items(1))]),
        Obj([title |-> Str(<<"a">>), chapters |-> Arr(Items(2))]),
        Obj([title |-> Str(<<"a">>), chapters |-> Arr(Items(0))]),
        Obj([title |-> Str(<<>>), chapters |-> Arr(Items(1))]),
        Obj([title |-> Str(<<" ">>), chapters |-> Arr(Items(1))]),
        Obj([title |-> Num(7), chapters |-> Arr(Items(1))]),
        Obj([title |-> Str(<<"a">>), chapters |-> Str(<<"a">>)]),
        Obj([chapters |-> Arr(Items(1))]) }}

ReadOutcomes ==
  Failures \cup
  {Response(200, d) : d \in
      { Null,
        Obj([message |-> Str(<<"a">>)]),
        Arr(<<>>),
        Arr(<<Page(Str(<<"a">>))>>),
        Arr(<<Page(Str(<<>>)), Page(Str(<<"a">>))>>),
        Arr(<<Page(Str(<<" ">>))>>),
        Arr(<<Page(Undefined)>>),
        Arr(<<Page(Num(7))>>),
        Arr(<<Page(Str(<<"a">>)), Page(Num(7))>>),
        Arr(<<Null>>) }}

ResultsOutcomes ==
  Failures \cup
  {Response(200, d) : d \in
      { Null,
        Obj([results |-> Arr(Items(0))]),
        Obj([results |-> Arr(Items(1))]),
        Obj([results |-> Arr(Items(2))]),
        Obj([results |-> Str(<<"a">>)]),
        Obj([message |-> Str(<<"a">>)]) }}


StatusMessage(code) ==
  CASE code = 400 -> "Status 400"
    [] code = 404 -> "Status 404"
    [] OTHER -> "Status 500"

fetchFromProvider(provider, raw) ==
  IF raw.kind = "throws"
  THEN [success |-> FALSE, error |-> raw.message, provider |-> provider]
  ELSE IF raw.statusCode = 200
  THEN IF raw.payload = Unparseable
       THEN [success |-> FALSE, error |-> "Unexpected token", provider |-> provider]
       ELSE [success |-> TRUE, data |-> raw.payload, provider |-> provider]
  ELSE [success |-> FALSE, error |-> StatusMessage(raw.statusCode), provider |-> provider]

\* errors.push(`${provider.name}: ${errorMsg}`)
PushErrorUnshift(errs, name, msg) == <<[provider |-> name, msg |-> msg]>> \o errs

PushError(errs, name, msg) == Append(errs, [provider |-> name, msg |-> msg])

\* the handler returns when it has sent: on acceptance, or after the loop
ReturnsOnlyAfterLoop(accepted, last) == last

Returns(accepted, last) == accepted \/ last

FallbackAlways(provider) == provider.priority >= 1

Fallback(provider) == provider.priority > 1

InfoReply(data, provider) ==
  [status |-> 200, data |-> data, provider |-> provider.name,
   fallback |-> Fallback(provider)]

InfoNotFound(errs) ==
  [status |-> 404, message |-> "Manhwa not found on any provider", errors |-> errs,
   triedProviders |-> [i \in 1..Len(PROVIDERS) |-> PROVIDERS[i].name]]

ReadReply(data, provider) ==
  [status |-> 200,
   pages |-> [i \in 1..Len(data.v) |-> [page |-> data.v[i], provider |-> provider.name]]]

ReadNotFound(errs) ==
  [status |-> 404, message |-> "Chapter not found on any provider", errors |-> errs]

ResultsReply(data, provider) ==
  [status |-> 200, data |-> data,
   results |-> [i \in 1..Len(data.v.results.v) |->
                  [item |-> data.v.results.v[i], provider |-> provider.name]],
   provider |-> provider.name]

EmptyResultsLastProvider(pageNum) ==
  [status |-> 200, currentPage |-> ParseInt(pageNum), hasNextPage |-> FALSE,
   results |-> <<>>, provider |-> PROVIDERS[Len(PROVIDERS)].name]

EmptyResults(pageNum) ==
  [status |-> 200, currentPage |-> ParseInt(pageNum), hasNextPage |-> FALSE,
   results |-> <<>>, provider |-> PROVIDERS[1].name]

BadRequest(message) == [status |-> 400, message |-> message]

\* an exception that leaves the handler: Fastify answers 500
Uncaught(name) == [status |-> 500, error |-> name]

ProviderOrderKeepingPreferredTwice(preferred) ==
  IF preferred # ""
  THEN SelectSeq(PROVIDERS, LAMBDA p : p.name = preferred) \o PROVIDERS
  ELSE PROVIDERS

ProviderOrder(preferred) ==
  IF preferred # ""
  THEN SelectSeq(PROVIDERS, LAMBDA p : p.name = preferred)
         \o SelectSeq(PROVIDERS, LAMBDA p : p.name # preferred)
  ELSE PROVIDERS

\* the last 200 reply of /info, recorded when the next request arrives
Remember ==
  IF req.op = "info" /\ reply.status = 200
  THEN [id |-> req.arg, reply |-> reply]
  ELSE prevInfo

Begin(r, ord) ==
  /\ req' = r
  /\ order' = ord
  /\ idx' = 1
  /\ attempts' = <<>>
  /\ errors' = <<>>
  /\ reply' = NoReply
  /\ phase' = "trying"
  /\ prevInfo' = Remember
  /\ UNCHANGED PROVIDERS
  /\ UNCHANGED <<valVars, cacheVars, retryVars, limVars, brVars,
                 scrVars, cxVars>>

Reject(r, message) ==
  /\ req' = r
  /\ order' = <<>>
  /\ idx' = 1
  /\ attempts' = <<>>
  /\ errors' = <<>>
  /\ reply' = BadRequest(message)
  /\ phase' = "done"
  /\ prevInfo' = Remember
  /\ UNCHANGED PROVIDERS
  /\ UNCHANGED <<valVars, cacheVars, retryVars, limVars, brVars,
                 scrVars, cxVars>>

Request(op, arg, page, preferred) ==
  [op |-> op, arg |-> arg, page |-> page, preferred |-> preferred]

InfoStartCached ==
  /\ phase # "trying"
  /\ \E id \in Ids \cup {""} :
       IF id = "" THEN Reject(Request("info", id, "", ""), "id is required")
       ELSE IF Remember.id = id
       THEN /\ req' = Request("info", id, "", "")
            /\ order' = PROVIDERS
            /\ idx' = 1
            /\ attempts' = <<>>
            /\ errors' = <<>>
            /\ reply' = Remember.reply
            /\ phase' = "done"
            /\ prevInfo' = Remember
            /\ UNCHANGED PROVIDERS
            /\ UNCHANGED <<valVars, cacheVars, retryVars, limVars, brVars,
                           scrVars, cxVars>>
       ELSE Begin(Request("info", id, "", ""), PROVIDERS)

InfoStart ==
  /\ phase # "trying"
  /\ \E id \in Ids \cup {""} :
       IF id = "" THEN Reject(Request("info", id, "", ""), "id is required")
       ELSE Begin(Request("info", id, "", ""), PROVIDERS)

InfoTryProvider ==
  /\ phase = "trying" /\ req.op = "info" /\ idx <= Len(order)
  /\ \E raw \in InfoOutcomes :
       LET provider == order[idx]
           result == fetchFromProvider(provider.name, raw)
           valid == IF result.success THEN isValidManhwaInfo(result.data) ELSE "false"
           last == idx = Len(order)
           errorMsg == IF result.success THEN "Invalid data (no chapters or title)"
                       ELSE result.error
           errs == PushError(errors, provider.name, errorMsg)
       IN /\ attempts' = Append(attempts, [result |-> result, valid |-> valid])
          /\ idx' = idx + 1
          /\ CASE valid = "TypeError" ->
                    /\ reply' = Uncaught("TypeError")
                    /\ errors' = errors
                    /\ phase' = "done"
               [] valid = "true" ->
                    /\ reply' = InfoReply(result.data, provider)
                    /\ errors' = errors
                    /\ phase' = IF Returns(TRUE, last) THEN "done" ELSE "trying"
               [] OTHER ->
                    /\ errors' = errs
                    /\ reply' = IF last THEN InfoNotFound(errs) ELSE reply
                    /\ phase' = IF Returns(FALSE, last) THEN "done" ELSE "trying"
  /\ UNCHANGED <<PROVIDERS, req, order, prevInfo>>
  /\ UNCHANGED <<valVars, cacheVars, retryVars, limVars, brVars,
                 scrVars, cxVars>>

ReadStart ==
  /\ phase # "trying"
  /\ \E chapterId \in Ids \cup {""},
        preferred \in {"", "manhuaplus", "manhuaus", "mgeko"} :
       IF chapterId = ""
       THEN Reject(Request("read", chapterId, "", preferred), "chapterId is required")
       ELSE Begin(Request("read", chapterId, "", preferred), ProviderOrder(preferred))

ReadTryProvider ==
  /\ phase = "trying" /\ req.op = "read" /\ idx <= Len(order)
  /\ \E raw \in ReadOutcomes :
       LET provider == order[idx]
           result == fetchFromProvider(provider.name, raw)
           valid == IF result.success THEN isValidChapterPages(result.data) ELSE "false"
           last == idx = Len(order)
           errorMsg == IF result.success THEN "No valid pages found" ELSE result.error
           errs == PushError(errors, provider.name, errorMsg)
       IN /\ attempts' = Append(attempts, [result |-> result, valid |-> valid])
          /\ idx' = idx + 1
          /\ CASE valid = "TypeError" ->
                    /\ reply' = Uncaught("TypeError")
                    /\ errors' = errors
                    /\ phase' = "done"
               [] valid = "true" ->
                    /\ reply' = ReadReply(result.data, provider)
                    /\ errors' = errors
                    /\ phase' = IF Returns(TRUE, last) THEN "done" ELSE "trying"
               [] OTHER ->
                    /\ errors' = errs
                    /\ reply' = IF last THEN ReadNotFound(errs) ELSE reply
                    /\ phase' = IF Returns(FALSE, last) THEN "done" ELSE "trying"
  /\ UNCHANGED <<PROVIDERS, req, order, prevInfo>>
  /\ UNCHANGED <<valVars, cacheVars, retryVars, limVars, brVars,
                 scrVars, cxVars>>

ResultsOps == {"search", "latest", "advanced-search", "genre"}

SearchStart ==
  /\ phase # "trying"
  /\ \E query \in Ids \cup {""}, page \in PageParams :
       IF query = "" THEN Reject(Request("search", query, page, ""), "query is required")
       ELSE Begin(Request("search", query, page, ""), PROVIDERS)

LatestStart ==
  /\ phase # "trying"
  /\ \E page \in PageParams : Begin(Request("latest", "", page, ""), PROVIDERS)

AdvancedSearchStart ==
  /\ phase # "trying"
  /\ \E query \in Ids \cup {""}, page \in PageParams :
       Begin(Request("advanced-search", query, page, ""), PROVIDERS)

GenreStart ==
  /\ phase # "trying"
  /\ \E slug \in Ids, page \in PageParams :
       Begin(Request("genre", slug, page, ""), PROVIDERS)

\* the provider loop of /search, /latest, /advanced-search and /genre/:slug
ResultsTryProvider ==
  /\ phase = "trying" /\ req.op \in ResultsOps /\ idx <= Len(order)
  /\ \E raw \in ResultsOutcomes :
       LET provider == order[idx]
           result == fetchFromProvider(provider.name, raw)
           valid == IF result.success THEN isValidSearchResults(result.data) ELSE "false"
           last == idx = Len(order)
           pageNum == IF req.page = "" THEN "1" ELSE req.page
       IN /\ attempts' = Append(attempts, [result |-> result, valid |-> valid])
          /\ idx' = idx + 1
          /\ IF valid = "true"
             THEN /\ reply' = ResultsReply(result.data, provider)
                  /\ phase' = IF Returns(TRUE, last) THEN "done" ELSE "trying"
             ELSE /\ reply' = IF last THEN EmptyResults(pageNum) ELSE reply
                  /\ phase' = IF Returns(FALSE, last) THEN "done" ELSE "trying"
  /\ UNCHANGED <<PROVIDERS, req, order, errors, prevInfo>>
  /\ UNCHANGED <<valVars, cacheVars, retryVars, limVars, brVars,
                 scrVars, cxVars>>

(***************************************************************************)
(* TTL caches: comixto fetchApi, AniList /info/:id, MangaUpdates /search   *)
(* and mgeko /genre/:slug.  Each keeps a module-level Map from a cache key *)
(* to {data, timestamp}.  A Map is a function whose domain is the set of   *)
(* keys it holds.  Two callers run the handlers concurrently; a handler is *)
(* suspended between its cache lookup and the settling of its upstream     *)
(* request.                                                                *)
(***************************************************************************)
CACHE_TTL == 30 * 60 * 1000
ANILIST_CACHE_TTL == 60 * 60 * 1000
MU_CACHE_TTL == 60 * 60 * 1000
GENRE_CACHE_TTL == 15 * 60 * 1000

Routes == {"comixto", "anilist", "mangaupdates", "mgeko"}

Ttl(r) ==
  CASE r = "comixto" -> CACHE_TTL
    [] r = "anilist" -> ANILIST_CACHE_TTL
    [] r = "mangaupdates" -> MU_CACHE_TTL
    [] OTHER -> GENRE_CACHE_TTL

Callers == {"c1", "c2"}
Other(c) == CHOOSE d \in Callers : d # c

MapHas(map, k) == k \in DOMAIN map

MapSetKeepingFirst(map, k, e) ==
  [x \in DOMAIN map \cup {k} |-> IF x \in DOMAIN map THEN map[x] ELSE e]

MapSet(map, k, e) ==
  [x \in DOMAIN map \cup {k} |-> IF x = k THEN e ELSE map[x]]

Entry(data) == [data |-> data, timestamp |-> now]

\* cached && Date.now() - cached.timestamp < ttl
FreshUpToTtl(map, k, ttl) == MapHas(map, k) /\ now - map[k].timestamp <= ttl

Fresh(map, k, ttl) == MapHas(map, k) /\ now - map[k].timestamp < ttl

Sent(code, body) == [status |-> code, body |-> body]
Returned(data) == [kind |-> "returns", data |-> data]
Thrown(message) == [kind |-> "throws", message |-> message]

IdleCall ==
  [pc |-> "idle", key |-> <<>>, hadEntry |-> FALSE, age |-> 0,
   invoked |-> FALSE, upstream |-> Null, overlapped |-> FALSE, wrote |-> <<>>,
   origin |-> <<>>, reply |-> NoReply]

\* the handler of caller c answers r before any await (a 400)
AnswerAtOnce(c, r) ==
  /\ calls' = [x \in Callers |->
       IF x = c THEN [IdleCall EXCEPT !.pc = "done", !.reply = r]
       ELSE [calls[x] EXCEPT !.overlapped = FALSE]]
  /\ finished' = Append(SelectSeq(finished, LAMBDA x : x # c), c)
  /\ UNCHANGED fillReply

\* the handler of caller c found a fresh entry under k and answers r
ServeCached(c, map, k, r) ==
  /\ calls' = [x \in Callers |->
       IF x = c
       THEN [IdleCall EXCEPT !.pc = "done", !.key = k, !.hadEntry = TRUE,
                             !.age = now - map[k].timestamp,
                             !.origin = <<fillReply[k]>>, !.reply = r]
       ELSE [calls[x] EXCEPT !.overlapped = FALSE]]
  /\ finished' = Append(SelectSeq(finished, LAMBDA x : x # c), c)
  /\ UNCHANGED fillReply

\* the handler of caller c issues the upstream request for k and is suspended
Upstream(c, map, k) ==
  LET d == Other(c)
      both == calls[d].pc = "fetching" /\ calls[d].key = k
  IN /\ calls' = [x \in Callers |->
          IF x = c
          THEN [IdleCall EXCEPT !.pc = "fetching", !.key = k,
                                !.hadEntry = MapHas(map, k),
                                !.age = IF MapHas(map, k) THEN now - map[k].timestamp ELSE 0,
                                !.invoked = TRUE,
                                !.overlapped = both]
          ELSE [calls[x] EXCEPT !.overlapped = both]]
     /\ finished' = SelectSeq(finished, LAMBDA x : x # c)
     /\ UNCHANGED fillReply

\* the upstream request of caller c settled as raw, without data to cache: answer r
Fail(c, raw, r) ==
  /\ calls' = [calls EXCEPT ![c].pc = "done", ![c].upstream = raw, ![c].reply = r]
  /\ finished' = Append(finished, c)
  /\ UNCHANGED fillReply

\* the upstream request of caller c settled as raw, with data stored as entry e:
\* answer r
Fill(c, raw, e, r) ==
  /\ calls' = [calls EXCEPT ![c].pc = "done", ![c].upstream = raw,
                            ![c].wrote = <<e>>, ![c].reply = r]
  /\ finished' = Append(finished, c)
  /\ fillReply' = MapSet(fillReply, calls[c].key, r)

(* comixto: fetchApi(endpoint) *)
ComixOutcomes ==
  {Rejects, Response(404, Null), Response(200, Unparseable)}
    \cup {Response(200, Obj([result |-> Num(n)])) : n \in 1..2}

\* response.ok
ResponseOkAlways(raw) == TRUE

ResponseOk(raw) == raw.statusCode >= 200 /\ raw.statusCode <= 299

fetchApi(c) ==
  /\ route = "comixto" /\ calls[c].pc \in {"idle", "done"}
  /\ \E endpoint \in {"/manga/1", "/manga/2"} :
       LET cacheKey == <<endpoint>> IN
       IF Fresh(cache, cacheKey, CACHE_TTL)
       THEN ServeCached(c, cache, cacheKey, Returned(cache[cacheKey].data))
       ELSE Upstream(c, cache, cacheKey)
  /\ UNCHANGED <<route, now, cache, anilistCache, muCache, genreCache>>
  /\ UNCHANGED <<uniVars, valVars, retryVars, limVars, brVars, scrVars, cxVars>>

fetchApiSettle(c) ==
  /\ route = "comixto" /\ calls[c].pc = "fetching"
  /\ \E raw \in ComixOutcomes :
       IF raw.kind = "throws"
       THEN Fail(c, raw, Thrown(raw.message)) /\ UNCHANGED cache
       ELSE IF ~ResponseOk(raw)
       THEN Fail(c, raw, Thrown("API error")) /\ UNCHANGED cache
       ELSE IF raw.payload = Unparseable
       THEN Fail(c, raw, Thrown("Unexpected token")) /\ UNCHANGED cache
       ELSE /\ cache' = MapSet(cache, calls[c].key, Entry(raw.payload))
            /\ Fill(c, raw, Entry(raw.payload), Returned(raw.payload))
  /\ UNCHANGED <<route, now, anilistCache, muCache, genreCache>>
  /\ UNCHANGED <<uniVars, valVars, retryVars, limVars, brVars, scrVars, cxVars>>

(* AniList: GET /info/:id *)
Media(id) == Obj([id |-> Num(id), title |-> Obj([romaji |-> Str(<<"a">>)])])

formatMangaInfo(media) ==
  Obj([id |-> Str(<<ToString(media.v.id.v)>>),
       anilistId |-> media.v.id,
       title |-> IF Truthy(Get(media.v.title, "english"))
                 THEN Get(media.v.title, "english")
                 ELSE Get(media.v.title, "romaji")])

AnilistOutcomes(id) ==
  {Rejects, Response(500, Null), Response(200, Obj([data |-> Obj([Media |-> Null])])),
   Response(200, Obj([data |-> Obj([Media |-> Media(id)])]))}

AnilistInfo(c) ==
  /\ route = "anilist" /\ calls[c].pc \in {"idle", "done"}
  /\ \E id \in 1..2 :
       LET cacheKey == <<"info", id>> IN
       IF Fresh(anilistCache, cacheKey, ANILIST_CACHE_TTL)
       THEN ServeCached(c, anilistCache, cacheKey, Sent(200, anilistCache[cacheKey].data))
       ELSE Upstream(c, anilistCache, cacheKey)
  /\ UNCHANGED <<route, now, cache, anilistCache, muCache, genreCache>>
  /\ UNCHANGED <<uniVars, valVars, retryVars, limVars, brVars, scrVars, cxVars>>

AnilistInfoSettle(c) ==
  /\ route = "anilist" /\ calls[c].pc = "fetching"
  /\ \E raw \in AnilistOutcomes(calls[c].key[2]) :
       IF raw.kind = "throws" \/ raw.statusCode # 200
       THEN /\ Fail(c, raw, Sent(500, Obj([error |-> Str(<<"Failed to get AniList info">>)])))
            /\ UNCHANGED anilistCache
       ELSE LET media == Get(Get(raw.payload, "data"), "Media") IN
            IF ~Truthy(media)
            THEN /\ Fail(c, raw, Sent(404, Obj([error |-> Str(<<"Manga not found on AniList">>)])))
                 /\ UNCHANGED anilistCache
            ELSE LET data == formatMangaInfo(media) IN
                 /\ anilistCache' = MapSet(anilistCache, calls[c].key, Entry(data))
                 /\ Fill(c, raw, Entry(data), Sent(200, data))
  /\ UNCHANGED <<route, now, cache, muCache, genreCache>>
  /\ UNCHANGED <<uniVars, valVars, retryVars, limVars, brVars, scrVars, cxVars>>

(* MangaUpdates: GET /search *)
MuResponses ==
  {Null, Obj([total_hits |-> Num(0)])}
    \cup {Obj([results |->
                  Arr([i \in 1..n |->
                         Obj([record |-> Obj([series_id |-> Num(i),
                                              title |-> Str(<<"a">>)])])]),
                total_hits |-> Num(n)]) :
            n \in {0, 2}}

MuResults(response) ==
  LET results == response.v.results.v
      first == SubSeq(results, 1, IF Len(results) < 10 THEN Len(results) ELSE 10)
  IN
  Arr([i \in 1..Len(first) |->
         Obj([id |-> Str(<<ToString(first[i].v.record.v.series_id.v)>>),
              muId |-> first[i].v.record.v.series_id,
              title |-> first[i].v.record.v.title])])

MuSearch(c) ==
  /\ route = "mangaupdates" /\ calls[c].pc \in {"idle", "done"}
  /\ \E q \in {"", "solo", "tower"} :
       LET cacheKey == <<"mu-search", q>> IN
       IF q = ""
       THEN AnswerAtOnce(c, Sent(400, Obj([error |-> Str(<<"Query parameter q is required">>)])))
       ELSE IF Fresh(muCache, cacheKey, MU_CACHE_TTL)
       THEN ServeCached(c, muCache, cacheKey, Sent(200, muCache[cacheKey].data))
       ELSE Upstream(c, muCache, cacheKey)
  /\ UNCHANGED <<route, now, cache, anilistCache, muCache, genreCache>>
  /\ UNCHANGED <<uniVars, valVars, retryVars, limVars, brVars, scrVars, cxVars>>

MuSearchSettle(c) ==
  /\ route = "mangaupdates" /\ calls[c].pc = "fetching"
  /\ \E response \in MuResponses :
       IF ~Truthy(response) \/ ~Truthy(Get(response, "results"))
       THEN /\ Fail(c, response, Sent(200, Obj([results |-> Arr(<<>>)])))
            /\ UNCHANGED muCache
       ELSE LET data == Obj([results |-> MuResults(response),
                             total |-> Get(response, "total_hits")]) IN
            /\ muCache' = MapSet(muCache, calls[c].key, Entry(data))
            /\ Fill(c, response, Entry(data), Sent(200, data))
  /\ UNCHANGED <<route, now, cache, anilistCache, genreCache>>
  /\ UNCHANGED <<uniVars, valVars, retryVars, limVars, brVars, scrVars, cxVars>>

(* mgeko: GET /genre/:slug *)
GenrePageSize == 20

GenreListings == {Arr(Items(n)) : n \in {0, GenrePageSize}}

GenreBody(slug, pageNum, results) ==
  [currentPage |-> pageNum, hasNextPage |-> Len(results.v) >= GenrePageSize,
   totalResults |-> Len(results.v), genre |-> slug, results |-> results]

GenreBodyCachedNoNextPage(slug, pageNum, results) ==
  [currentPage |-> pageNum, hasNextPage |-> FALSE,
   totalResults |-> Len(results.v), genre |-> slug, results |-> results,
   cached |-> TRUE]

GenreBodyCached(slug, pageNum, results) ==
  [currentPage |-> pageNum, hasNextPage |-> Len(results.v) >= GenrePageSize,
   totalResults |-> Len(results.v), genre |-> slug, results |-> results,
   cached |-> TRUE]

MgekoGenre(c) ==
  /\ route = "mgeko" /\ calls[c].pc \in {"idle", "done"}
  /\ \E slug \in {"action"}, page \in {"", "2"} :
       LET pageNum == IF page = "" THEN Num(1) ELSE ParseInt(page)
           cacheKey == <<slug, pageNum>>
       IN IF Fresh(genreCache, cacheKey, GENRE_CACHE_TTL)
          THEN ServeCached(c, genreCache, cacheKey,
                           Sent(200, GenreBodyCached(slug, pageNum, genreCache[cacheKey].data)))
          ELSE Upstream(c, genreCache, cacheKey)
  /\ UNCHANGED <<route, now, cache, anilistCache, muCache, genreCache>>
  /\ UNCHANGED <<uniVars, valVars, retryVars, limVars, brVars, scrVars, cxVars>>

MgekoGenreSettle(c) ==
  /\ route = "mgeko" /\ calls[c].pc = "fetching"
  /\ \E raw \in {Rejects, Response(500, Null)} \cup {Response(200, l) : l \in GenreListings} :
       IF raw.kind = "throws" \/ raw.statusCode # 200
       THEN /\ Fail(c, raw, Sent(500, Obj([message |-> Str(<<"Something went wrong">>)])))
            /\ UNCHANGED genreCache
       ELSE LET results == raw.payload
                cacheKey == calls[c].key
            IN /\ genreCache' = MapSet(genreCache, cacheKey, Entry(results))
               /\ Fill(c, raw, Entry(results), Sent(200, GenreBody(cacheKey[1], cacheKey[2], results)))
  /\ UNCHANGED <<route, now, cache, anilistCache, muCache>>
  /\ UNCHANGED <<uniVars, valVars, retryVars, limVars, brVars, scrVars, cxVars>>

\* time passes (Date.now() grows), half a TTL at a time
Tick ==
  /\ route \in Routes
  /\ now < MaxTicks * (Ttl(route) \div 2)
  /\ now' = now + Ttl(route) \div 2
  /\ UNCHANGED <<route, cache, anilistCache, muCache, genreCache, calls, fillReply, finished>>
  /\ UNCHANGED <<uniVars, valVars, retryVars, limVars, brVars, scrVars, cxVars>>

CacheIdle ==
  /\ route = "none" /\ now = 0
  /\ cache = <<>> /\ anilistCache = <<>> /\ muCache = <<>>
  /\ genreCache = <<>>
  /\ calls = [c \in Callers |-> IdleCall]
  /\ fillReply = <<>>
  /\ finished = <<>>

(***************************************************************************)
(* utils/proxy: fetchWithRetry(url, options).  A step runs the function    *)
(* from one await to the next.                                             *)
(***************************************************************************)
\* how client.get(url) settles: axios resolves on 2xx and rejects otherwise
GetOutcomes ==
  {Response(200, Str(<<"a">>)), Response(200, Str(<<"b">>)),
   Rejects, Response(500, Null), Response(429, Null), Response(404, Null)}

\* options?.maxRetries || 3
maxRetries == IF Truthy(fwOptions.maxRetries) THEN fwOptions.maxRetries.v ELSE 3

\* options?.retryDelay || 1000
retryDelay == IF Truthy(fwOptions.retryDelay) THEN fwOptions.retryDelay.v ELSE 1000

\* the loop test: attempt <= maxRetries
LoopContinuesBelow(n) == n < maxRetries

LoopContinues(n) == n <= maxRetries

\* retryDelay * Math.pow(2, attempt - 1)
DelayDoubledAtFirst(n) == retryDelay * 2 ^ n

Delay(n) == retryDelay * 2 ^ (n - 1)

\* attempt becomes n: the loop goes on, or ends and lastError is thrown
NextAttempt(n, error) ==
  /\ attempt' = n
  /\ IF LoopContinues(n)
     THEN fwPc' = "get" /\ fwResult' = fwResult
     ELSE /\ fwPc' = "thrown"
          /\ fwResult' = Thrown(IF error # Null THEN error ELSE Str(<<"Failed to fetch">>))

fetchWithRetry ==
  /\ fwPc = "idle"
  /\ lastError' = Null
  /\ NextAttempt(1, Null)
  /\ UNCHANGED <<fwOptions, outcomes, waits>>
  /\ UNCHANGED <<uniVars, valVars, cacheVars, limVars, brVars, scrVars, cxVars>>

GetSettles ==
  /\ fwPc = "get"
  /\ \E raw \in GetOutcomes :
       /\ outcomes' = Append(outcomes, raw)
       /\ IF raw.kind = "response" /\ raw.statusCode \in 200..299
          THEN /\ fwPc' = "returned" /\ fwResult' = Returned(raw.payload)
               /\ UNCHANGED <<attempt, lastError, waits>>
          ELSE /\ lastError' = raw
               /\ IF attempt < maxRetries
                  THEN /\ waits' = Append(waits, Delay(attempt))
                       /\ fwPc' = "sleep"
                       /\ UNCHANGED <<attempt, fwResult>>
                  ELSE /\ NextAttempt(attempt + 1, raw)
                       /\ UNCHANGED waits
  /\ UNCHANGED fwOptions
  /\ UNCHANGED <<uniVars, valVars, cacheVars, limVars, brVars, scrVars, cxVars>>

TimerFires ==
  /\ fwPc = "sleep"
  /\ NextAttempt(attempt + 1, lastError)
  /\ UNCHANGED <<fwOptions, lastError, outcomes, waits>>
  /\ UNCHANGED <<uniVars, valVars, cacheVars, limVars, brVars, scrVars, cxVars>>

RetryIdle ==
  /\ fwOptions = [maxRetries |-> Undefined, retryDelay |-> Undefined]
  /\ fwPc = "idle" /\ attempt = 1 /\ lastError = Null /\ fwResult = NoReply
  /\ outcomes = <<>> /\ waits = <<>>

(***************************************************************************)
(* utils/proxy: the shared rateLimiter = new RateLimiter(2).  wait() runs  *)
(* to its await (or to its end when it does not sleep); its timer fires at *)
(* or after the time it was set for.                                       *)
(***************************************************************************)
requestsPerSecond == 2
minDelay == 1000 \div requestsPerSecond

\* the step of the model clock, in ms
ClockStep == minDelay \div 2

NotWaiting == [pc |-> "idle", wakeAt |-> 0]

wait(c) ==
  /\ waiters[c].pc = "idle"
  /\ Len(completions) + Cardinality({d \in Callers : waiters[d].pc = "sleeping"}) < MaxWaits
  /\ LET elapsed == clock - lastRequest IN
     IF elapsed < minDelay
     THEN /\ waiters' = [waiters EXCEPT ![c] =
                           [pc |-> "sleeping", wakeAt |-> clock + (minDelay - elapsed)]]
          /\ UNCHANGED <<lastRequest, completions>>
     ELSE /\ lastRequest' = clock
          /\ completions' = Append(completions, clock)
          /\ UNCHANGED waiters
  /\ UNCHANGED clock
  /\ UNCHANGED <<uniVars, valVars, cacheVars, retryVars, brVars,
                 scrVars, cxVars>>

WakeUp(c) ==
  /\ waiters[c].pc = "sleeping" /\ clock >= waiters[c].wakeAt
  /\ lastRequest' = clock
  /\ completions' = Append(completions, clock)
  /\ waiters' = [waiters EXCEPT ![c] = NotWaiting]
  /\ UNCHANGED clock
  /\ UNCHANGED <<uniVars, valVars, cacheVars, retryVars, brVars,
                 scrVars, cxVars>>

ClockTick ==
  /\ clock < 2 * minDelay + MaxClockTicks * ClockStep
  /\ clock' = clock + ClockStep
  /\ UNCHANGED <<lastRequest, waiters, completions>>
  /\ UNCHANGED <<uniVars, valVars, cacheVars, retryVars, brVars,
                 scrVars, cxVars>>

\* the limiter at module load; Date.now() is far above minDelay
InitLimiter ==
  /\ clock = 2 * minDelay /\ lastRequest = 0
  /\ waiters = [c \in Callers |-> NotWaiting]
  /\ completions = <<>>

(***************************************************************************)
(* services/BrowserService: the shared instance.  A browser process is a   *)
(* number; a step runs a method from one await to the next.                *)
(***************************************************************************)
NoBrowser == 0

NoTask == [pc |-> "idle", then |-> "", target |-> NoBrowser]

\* no scrape in progress.  pc is the await the operation is at ("getPage",
\* "goto", "selector", "iframe", "settle", "content") or how it ended
\* ("returned", "thrown"); seen, waited and iframe are history
NoJob ==
  [op |-> "none", caller |-> "c1", selector |-> FALSE, pc |-> "idle",
   page |-> 0, handlers |-> <<>>, videoUrl |-> Null, seen |-> <<>>,
   waited |-> "none", iframe |-> "none", result |-> Returned(Undefined)]

\* puppeteer.launch(...) is issued and awaited; afterwards the caller goes on
\* with then
AwaitLaunch(c, then) ==
  /\ launches + Cardinality({d \in Callers : tasks[d].pc = "launching"}) < MaxBrowsers
  /\ tasks' = [tasks EXCEPT ![c] = [pc |-> "launching", then |-> then, target |-> NoBrowser]]
  /\ UNCHANGED <<browser, live, launches>>

\* launch(): returns at once when this.browser is set
launch(c) ==
  /\ tasks[c].pc = "idle"
  /\ browser = NoBrowser
  /\ AwaitLaunch(c, "idle")
  /\ UNCHANGED <<uniVars, valVars, cacheVars, retryVars, limVars,
                 scrVars, cxVars>>

\* getPage(): launches when this.browser is not set, then opens a page
getPage(c) ==
  /\ tasks[c].pc = "idle"
  /\ IF browser = NoBrowser
     THEN AwaitLaunch(c, "newPage")
     ELSE /\ tasks' = [tasks EXCEPT ![c].pc = "newPage"]
          /\ UNCHANGED <<browser, live, launches>>
  /\ UNCHANGED <<uniVars, valVars, cacheVars, retryVars, limVars,
                 scrVars, cxVars>>

\* puppeteer.launch settles: a new process is assigned to this.browser, or the
\* launch failed and the caller's method throws
LaunchSettles(c) ==
  /\ tasks[c].pc = "launching"
  /\ \/ /\ launches' = launches + 1
        /\ live' = live \cup {launches + 1}
        /\ browser' = launches + 1
        /\ tasks' = [tasks EXCEPT ![c].pc = tasks[c].then]
        /\ UNCHANGED job
     \/ /\ tasks' = [tasks EXCEPT ![c] = NoTask]
        /\ job' = IF job.pc = "getPage" /\ job.caller = c
                  THEN [job EXCEPT !.pc = "thrown", !.result = Thrown("launch")]
                  ELSE job
        /\ UNCHANGED <<browser, live, launches>>
  /\ UNCHANGED <<openPages, opened, requests>>
  /\ UNCHANGED <<uniVars, valVars, cacheVars, retryVars, limVars, cxVars>>

\* this.browser!.newPage() and the rest of getPage / getCleanPage settle.
\* newPage rejects (this.browser is null by now, or the browser failed); or
\* the page is opened and getPage's setRequestInterception(true) rejects, so
\* getPage throws and the page is handed to nobody; or the page is returned:
\* getPage installed its request handler on it, getEpisodeSources then sets
\* the user agent and installs its own request and response handlers.  A
\* page returned by a getPage() called outside a scrape belongs to its
\* caller and is not tracked.
NewPageSettles(c) ==
  /\ tasks[c].pc = "newPage"
  /\ tasks' = [tasks EXCEPT ![c] = NoTask]
  /\ UNCHANGED <<browser, live, launches>>
  /\ IF job.pc = "getPage" /\ job.caller = c
     THEN \/ /\ job' = [job EXCEPT !.pc = "thrown", !.result = Thrown("newPage")]
             /\ UNCHANGED <<openPages, opened, requests>>
          \/ /\ job.op # "scrapeDynamic"
             /\ opened' = opened + 1
             /\ openPages' = openPages \cup {opened + 1}
             /\ job' = [job EXCEPT !.pc = "thrown", !.page = opened + 1,
                                   !.result = Thrown("setRequestInterception")]
             /\ UNCHANGED requests
          \/ /\ opened' = opened + 1
             /\ openPages' = openPages \cup {opened + 1}
             /\ job' = [job EXCEPT
                          !.pc = "goto", !.page = opened + 1,
                          !.handlers =
                            CASE job.op = "scrapeDynamic" -> <<>>
                              [] job.op = "getEpisodeSources" ->
                                   <<"getPage", "getEpisodeSources">>
                              [] OTHER -> <<"getPage">>]
             /\ UNCHANGED requests
     ELSE UNCHANGED scrVars
  /\ UNCHANGED <<uniVars, valVars, cacheVars, retryVars, limVars, cxVars>>

\* close(): awaits this.browser.close() when this.browser is set
close(c) ==
  /\ tasks[c].pc = "idle"
  /\ browser # NoBrowser
  /\ tasks' = [tasks EXCEPT ![c] = [pc |-> "closing", then |-> "idle", target |-> browser]]
  /\ UNCHANGED <<browser, live, launches>>
  /\ UNCHANGED <<uniVars, valVars, cacheVars, retryVars, limVars,
                 scrVars, cxVars>>

\* browser.close() settled: this.browser = null
CloseSettles(c) ==
  /\ tasks[c].pc = "closing"
  /\ live' = live \ {tasks[c].target}
  /\ browser' = NoBrowser
  /\ tasks' = [tasks EXCEPT ![c] = NoTask]
  /\ UNCHANGED launches
  /\ UNCHANGED <<uniVars, valVars, cacheVars, retryVars, limVars,
                 scrVars, cxVars>>

InitBrowser ==
  /\ browser = NoBrowser /\ live = {} /\ launches = 0
  /\ tasks = [c \in Callers |-> NoTask]
  /\ job = NoJob /\ openPages = {} /\ opened = 0 /\ requests = <<>>

(***************************************************************************)
(* BrowserService.scrape / scrapeFast / scrapeDynamic and                  *)
(* HianimeScraper.getEpisodeSources: one operation at a time, run from one *)
(* await to the next.                                                      *)
(***************************************************************************)
\* the URLs of the responses a page may receive, as lists of parts
Urls ==
  {<<"https://cdn-a/", "master", ".m3u8">>,
   <<"https://cdn-b/", "index", ".m3u8">>,
   <<"https://", "googlevideo.com", "/", "videoplayback">>,
   <<"https://", "googlevideo.com", "/", "generate_204">>,
   <<"https://hianime.to/", "watch">>}

\* String.prototype.includes on a URL, for a part of it
UrlIncludes(url, part) == \E i \in DOMAIN url : url[i] = part

\* the test of the response listener of getEpisodeSources
IsVideoStream(url) ==
  \/ UrlIncludes(url, ".m3u8")
  \/ UrlIncludes(url, "googlevideo.com") /\ UrlIncludes(url, "videoplayback")

\* the operation calls getPage() (getCleanPage() in scrapeDynamic)
BeginJob(c, op, selector) ==
  /\ job.pc \in {"idle", "returned", "thrown"}
  /\ opened < MaxScrapes
  /\ tasks[c].pc = "idle"
  /\ job' = [NoJob EXCEPT !.op = op, !.caller = c, !.selector = selector,
                          !.pc = "getPage"]
  /\ requests' = <<>>
  /\ IF browser = NoBrowser
     THEN AwaitLaunch(c, "newPage")
     ELSE /\ tasks' = [tasks EXCEPT ![c].pc = "newPage"]
          /\ UNCHANGED <<browser, live, launches>>
  /\ UNCHANGED <<openPages, opened>>
  /\ UNCHANGED <<uniVars, valVars, cacheVars, retryVars, limVars, cxVars>>

\* scrape(url, selector?), scrapeFast(url), scrapeDynamic(url, selector?)
scrape(c) ==
  \E op \in {"scrape", "scrapeFast", "scrapeDynamic"}, selector \in BOOLEAN :
    /\ op = "scrapeFast" => ~selector
    /\ BeginJob(c, op, selector)

getEpisodeSources(c) == BeginJob(c, "getEpisodeSources", FALSE)

\* the finally block: await page.close(), then the operation ends as j says
Finally(j) ==
  /\ job' = j
  /\ openPages' = openPages \ {job.page}
  /\ UNCHANGED <<opened, requests>>

\* the page issues a request while it navigates; every 'request' handler of
\* the page is called with it, in the order of installation
RequestIntercepted ==
  /\ job.pc \in {"goto", "iframe"}
  /\ job.handlers # <<>>
  /\ Len(requests) < MaxRequests
  /\ \E resourceType \in {"document", "image"} :
       requests' =
         Append(requests,
                [h \in DOMAIN job.handlers |->
                   IF /\ job.handlers[h] = "getPage"
                      /\ resourceType \in {"image", "stylesheet", "font", "media"}
                   THEN "abort" ELSE "continue"])
  /\ UNCHANGED <<job, openPages, opened, tasks, browser, live, launches>>
  /\ UNCHANGED <<uniVars, valVars, cacheVars, retryVars, limVars, cxVars>>

\* the page of getEpisodeSources receives a response: the 'response' listener
ResponseObserved ==
  /\ job.op = "getEpisodeSources"
  /\ job.pc \in {"goto", "iframe", "settle"}
  /\ Len(job.seen) < MaxResponses
  /\ \E url \in Urls :
       job' = [job EXCEPT !.seen = Append(@, url),
                          !.videoUrl = IF IsVideoStream(url) THEN Str(url) ELSE @]
  /\ UNCHANGED <<openPages, opened, requests, tasks, browser, live, launches>>
  /\ UNCHANGED <<uniVars, valVars, cacheVars, retryVars, limVars, cxVars>>

\* setUserAgent (setViewport) and page.goto(url, ...) settle: a rejection,
\* such as the navigation timeout, leaves through the finally block
GotoSettles ==
  /\ job.pc = "goto"
  /\ \/ Finally([job EXCEPT !.pc = "thrown", !.result = Thrown("goto")])
     \/ /\ job' = [job EXCEPT
                     !.pc = CASE job.op = "getEpisodeSources" -> "iframe"
                              [] job.op # "scrapeFast" /\ job.selector -> "selector"
                              [] OTHER -> "content"]
        /\ UNCHANGED <<openPages, opened, requests>>
  /\ UNCHANGED <<tasks, browser, live, launches>>
  /\ UNCHANGED <<uniVars, valVars, cacheVars, retryVars, limVars, cxVars>>

\* if (selector) await page.waitForSelector(selector, {timeout}): the selector
\* appears, or the wait times out and its rejection is not caught
SelectorSettles ==
  /\ job.pc = "selector"
  /\ \/ /\ job' = [job EXCEPT !.pc = "content", !.waited = "found"]
        /\ UNCHANGED <<openPages, opened, requests>>
     \/ Finally([job EXCEPT !.pc = "thrown", !.waited = "timeout",
                            !.result = Thrown("waitForSelector")])
  /\ UNCHANGED <<tasks, browser, live, launches>>
  /\ UNCHANGED <<uniVars, valVars, cacheVars, retryVars, limVars, cxVars>>

\* the delay, then page.content() settles and the finally block runs
ContentSettles ==
  /\ job.pc = "content"
  /\ \/ Finally([job EXCEPT !.pc = "returned",
                            !.result = Returned(Str(<<"content">>))])
     \/ Finally([job EXCEPT !.pc = "thrown", !.result = Thrown("content")])
  /\ UNCHANGED <<tasks, browser, live, launches>>
  /\ UNCHANGED <<uniVars, valVars, cacheVars, retryVars, limVars, cxVars>>

\* getEpisodeSources, the inner try: #iframe-embed does not appear, its src
\* is not an http URL, the navigation to it fails, or it is loaded; whatever
\* is thrown there is caught and logged
IframeSettles ==
  /\ job.pc = "iframe"
  /\ \E how \in {"missing", "notHttp", "failed", "loaded"} :
       job' = [job EXCEPT !.pc = "settle", !.iframe = how]
  /\ UNCHANGED <<openPages, opened, requests, tasks, browser, live, launches>>
  /\ UNCHANGED <<uniVars, valVars, cacheVars, retryVars, limVars, cxVars>>

\* getEpisodeSources: the 3 s timer fires, the result is built from videoUrl
\* and the finally block runs
SettleWindowEnds ==
  /\ job.pc = "settle"
  /\ Finally([job EXCEPT
                !.pc = "returned",
                !.result =
                  Returned(IF job.videoUrl # Null
                           THEN Obj([sources |-> <<job.videoUrl>>,
                                     isM3U8 |-> UrlIncludes(job.videoUrl.v, ".m3u8"),
                                     download |-> job.videoUrl])
                           ELSE Obj([error |-> Str(<<"No video source found via network sniffing">>)]))])
  /\ UNCHANGED <<tasks, browser, live, launches>>
  /\ UNCHANGED <<uniVars, valVars, cacheVars, retryVars, limVars, cxVars>>


(***************************************************************************)
(* routes/proxy GET /stream: the rewriting of an m3u8 playlist.  A string  *)
(* is the list of its parts; "/", "?", ".m3u8" and ".ts" are parts of      *)
(* their own.                                                              *)
(***************************************************************************)
\* encodeURIComponent, part by part
encodeURIComponent(str) ==
  [i \in DOMAIN str |->
     CASE str[i] = "/" -> "%2F"
       [] str[i] = "?" -> "%3F"
       [] str[i] = "https:" -> "https%3A"
       [] str[i] = "token=abc" -> "token%3Dabc"
       [] str[i] = "token=a" -> "token%3Da"
       [] OTHER -> str[i]]

\* content.replace(/^([^#\n][^\n]*EXT[^\n]*)$/gm, callback) on one line of
\* the playlist: a line that matches is replaced by the proxied URL
ReplaceLine(line, ext, url, referer) ==
  IF line # <<>> /\ Head(line) # "#" /\ \E i \in 2..Len(line) : line[i] = ext
  THEN LET lastSlash == IF \E i \in DOMAIN url : url[i] = "/"
                        THEN CHOOSE i \in DOMAIN url :
                               /\ url[i] = "/"
                               /\ \A j \in DOMAIN url : url[j] = "/" => j <= i
                        ELSE 0
           baseUrl == SubSeq(url, 1, lastSlash)
           absoluteUrl == IF Head(line) \in {"http:", "https:"}
                          THEN line ELSE baseUrl \o line
       IN <<"http://localhost:3000/proxy/stream?url=">>
            \o encodeURIComponent(absoluteUrl)
            \o (IF referer # <<>>
                THEN <<"&referer=">> \o encodeURIComponent(referer)
                ELSE <<>>)
  ELSE line

\* GET /stream?url=..&referer=.. when the upstream answered: the body sent
\* for a one-line body.  A playlist is rewritten in two passes; any other
\* file is relayed as it is
Stream ==
  /\ vOp = "stream" /\ verdict = Null
  /\ verdict' =
       IF \E i \in DOMAIN candidate.url : candidate.url[i] = ".m3u8"
       THEN Str(ReplaceLine(ReplaceLine(candidate.line, ".m3u8", candidate.url,
                                        candidate.referer),
                            ".ts", candidate.url, candidate.referer))
       ELSE Str(candidate.line)
  /\ UNCHANGED <<vOp, candidate>>
  /\ UNCHANGED <<uniVars, cacheVars, retryVars, limVars, brVars, scrVars,
                 cxVars>>

(***************************************************************************)
(* The read routes of manhuaplus, manhuaus and mgeko: the page list built  *)
(* from the img elements of the chapter page.  An element is the value of  *)
(* its image attribute, <<>> when it has none.                             *)
(***************************************************************************)
\* manhuaplus: normalizeImageUrl(url)
normalizeImageUrl(url) ==
  IF url = <<>> THEN <<>>
  ELSE IF Head(url) = "/" THEN <<"https://manhuaplus.top">> \o url
  ELSE url

\* $(selector).each((index, el) => { ... pages.push({page: index + 1, img}) })
\* and reply.status(200).send(pages).  The selector of mgeko takes only
\* elements whose src is set; manhuaus falls back to a second selector when
\* the first gave no page
ReadPages ==
  /\ vOp = "pages" /\ verdict = Null
  /\ LET Each(els, Kept(_), Img(_)) ==
           SelectSeq([index \in DOMAIN els |->
                        Obj([page |-> Num(index), img |-> Str(Img(els[index]))])],
                     LAMBDA p : Kept(els[p.v.page.v]))
         Set(img) == img # <<>>
         Shown(img) ==
           /\ normalizeImageUrl(img) # <<>>
           /\ \A i \in DOMAIN img : img[i] \notin {"loading", "placeholder"}
         Same(img) == img
         Trimmed(img) == Trim(img)
         TrimmedNormal(img) == Trim(normalizeImageUrl(img))
     IN verdict' =
          CASE candidate.provider = "manhuaplus" ->
                 Arr(Each(candidate.els, Shown, TrimmedNormal))
            [] candidate.provider = "mgeko" ->
                 Arr(Each(SelectSeq(candidate.els, Set), Set, Same))
            [] candidate.provider = "manhuaus" ->
                 IF Each(candidate.els, Set, Trimmed) # <<>>
                 THEN Arr(Each(candidate.els, Set, Trimmed))
                 ELSE Arr(Each(candidate.alt, Set, Trimmed))
  /\ UNCHANGED <<vOp, candidate>>
  /\ UNCHANGED <<uniVars, cacheVars, retryVars, limVars, brVars, scrVars,
                 cxVars>>

(***************************************************************************)
(* GET /match of MangaUpdates and AniList: the confidence of the match.    *)
(* A score is a fraction [n, d]; titles are not empty.                     *)
(***************************************************************************)
\* the score of title t for the search: 100 when they are equal, Math.max of
\* the two length ratios times 80 when one contains the other, else 0
Score(normalizedSearch, t) ==
  LET Includes(a, b) ==
        \E i \in 1..(Len(a) - Len(b) + 1) : SubSeq(a, i, i + Len(b) - 1) = b
      longer == IF Len(t) > Len(normalizedSearch) THEN Len(t)
                ELSE Len(normalizedSearch)
      shorter == IF Len(t) > Len(normalizedSearch) THEN Len(normalizedSearch)
                 ELSE Len(t)
  IN IF t = normalizedSearch THEN [n |-> 100, d |-> 1]
     ELSE IF Includes(t, normalizedSearch) \/ Includes(normalizedSearch, t)
          THEN [n |-> longer * 80, d |-> shorter]
          ELSE [n |-> 0, d |-> 1]

\* AniList: the loops over the results and their titles (one title per
\* result); an exact match ends them with 100, a containing title replaces
\* bestScore when its score is greater
RECURSIVE BestScore(_, _, _)
BestScore(titles, normalizedSearch, bestScore) ==
  IF titles = <<>> THEN bestScore
  ELSE LET score == Score(normalizedSearch, Head(titles))
           best == IF Head(titles) = normalizedSearch THEN score
                   ELSE IF score.n * bestScore.d > bestScore.n * score.d
                        THEN score ELSE bestScore
       IN IF best = [n |-> 100, d |-> 1] THEN best
          ELSE BestScore(Tail(titles), normalizedSearch, best)

\* MangaUpdates GET /match?title=: the first result only; 0 without results,
\* 50 when the titles do not contain each other; Math.round at the end
MuMatch ==
  /\ vOp = "mu-match" /\ verdict = Null
  /\ LET toLowerCase(str) ==
           [i \in DOMAIN str |-> IF str[i] = "A" THEN "a" ELSE str[i]]
         confidence ==
           Score(toLowerCase(candidate.title), toLowerCase(candidate.titles[1]))
     IN verdict' =
          IF candidate.titles = <<>> THEN Num(0)
          ELSE IF confidence.n = 0 THEN Num(50)
          ELSE Num((2 * confidence.n + confidence.d) \div (2 * confidence.d))
  /\ UNCHANGED <<vOp, candidate>>
  /\ UNCHANGED <<uniVars, cacheVars, retryVars, limVars, brVars, scrVars,
                 cxVars>>

\* AniList GET /match?title=: the best score over the results; 0 without
\* results, 50 when bestScore is still 0; Math.round at the end
AnilistMatch ==
  /\ vOp = "anilist-match" /\ verdict = Null
  /\ LET toLowerCase(str) ==
           [i \in DOMAIN str |-> IF str[i] = "A" THEN "a" ELSE str[i]]
         bestScore ==
           BestScore([i \in DOMAIN candidate.titles |->
                        toLowerCase(candidate.titles[i])],
                     toLowerCase(candidate.title), [n |-> 0, d |-> 1])
     IN verdict' =
          IF candidate.titles = <<>> THEN Num(0)
          ELSE IF bestScore.n = 0 THEN Num(50)
          ELSE Num((2 * bestScore.n + bestScore.d) \div (2 * bestScore.d))
  /\ UNCHANGED <<vOp, candidate>>
  /\ UNCHANGED <<uniVars, cacheVars, retryVars, limVars, brVars, scrVars,
                 cxVars>>

(***************************************************************************)
(* comixto GET /info/:id: the manga, then its chapter pages one by one,    *)
(* then the chapter list grouped by number.  fetchApi returns the parsed   *)
(* body or throws.  The upstream holds at most MaxRaw chapters; their ids  *)
(* are their positions in the listing.  The fields of the reply that come  *)
(* from formatMangaInfo(manga) are left out.                               *)
(***************************************************************************)
ChapterPageLimit == 50

\* no call in progress.  pageLog is history: per chapter page fetched, its
\* number, whether fetchApi threw, and the pagination data of the body
NoInfoCall ==
  [pc |-> "idle", page |-> 1, allChapters |-> <<>>, pageLog |-> <<>>,
   reply |-> NoReply]

formatChapter(chapter) ==
  Obj([id |-> Str(<<ToString(chapter.v.chapter_id.v)>>),
       number |-> Get(chapter, "number"),
       chapterNumber |-> Get(chapter, "number"),
       scanGroup |-> IF Truthy(Get(chapter, "scanlation_group"))
                     THEN Get(chapter, "scanlation_group") ELSE Null])

ChaptersFirstVersionOnly(rawChapters) ==
  LET Number(chapter) == IF Truthy(Get(chapter, "number"))
                         THEN chapter.v.number.v ELSE 0
      keys == {Number(rawChapters[i]) : i \in DOMAIN rawChapters}
      sortedNumbers == CHOOSE q \in [1..Cardinality(keys) -> keys] :
                         \A i, j \in DOMAIN q : i < j => q[i] > q[j]
      Versions(num) ==
        LET same == SelectSeq(rawChapters, LAMBDA chapter : Number(chapter) = num)
        IN <<formatChapter(same[1])>>
  IN [i \in DOMAIN sortedNumbers |->
        LET versions == Versions(sortedNumbers[i])
            primary == versions[1].v
        IN Obj([id |-> primary.id, number |-> primary.number,
                chapterNumber |-> primary.chapterNumber,
                scanGroup |-> primary.scanGroup,
                versions |-> Arr(versions),
                hasMultipleVersions |-> Len(versions) > 1])]

\* chapterMap, sortedNumbers and chapters: the raw chapters grouped by
\* chapter.number || 0, the numbers sorted descending, one entry per number
\* that spreads its first version and carries all of them
Chapters(rawChapters) ==
  LET Number(chapter) == IF Truthy(Get(chapter, "number"))
                         THEN chapter.v.number.v ELSE 0
      keys == {Number(rawChapters[i]) : i \in DOMAIN rawChapters}
      sortedNumbers == CHOOSE q \in [1..Cardinality(keys) -> keys] :
                         \A i, j \in DOMAIN q : i < j => q[i] > q[j]
      Versions(num) ==
        LET same == SelectSeq(rawChapters, LAMBDA chapter : Number(chapter) = num)
        IN [v \in DOMAIN same |-> formatChapter(same[v])]
  IN [i \in DOMAIN sortedNumbers |->
        LET versions == Versions(sortedNumbers[i])
            primary == versions[1].v
        IN Obj([id |-> primary.id, number |-> primary.number,
                chapterNumber |-> primary.chapterNumber,
                scanGroup |-> primary.scanGroup,
                versions |-> Arr(versions),
                hasMultipleVersions |-> Len(versions) > 1])]

hasMoreUnlessLastPage(chaptersData) ==
  LET pagination == Get(Get(chaptersData, "result"), "pagination")
      current == Get(pagination, "current_page")
      last == Get(pagination, "last_page")
  IN ~(current.t = "number" /\ last.t = "number" /\ current.v >= last.v)

\* chaptersData.result?.pagination?.current_page <
\* chaptersData.result?.pagination?.last_page
hasMore(chaptersData) ==
  LET pagination == Get(Get(chaptersData, "result"), "pagination")
      current == Get(pagination, "current_page")
      last == Get(pagination, "last_page")
  IN current.t = "number" /\ last.t = "number" /\ current.v < last.v

\* the handler up to the first fetchApi of a chapter page: fetchApi of the
\* manga throws (500), the body is not a found manga (404), or the loop begins
ComixInfo ==
  /\ info.pc \in {"idle", "done"}
  /\ \E mangaData \in {Thrown("fetch failed"),
                       Returned(Obj([status |-> Num(404)])),
                       Returned(Obj([status |-> Num(200), result |-> Null])),
                       Returned(Obj([status |-> Num(200),
                                     result |-> Obj([manga_id |-> Num(1)])]))} :
       info' =
         IF mangaData.kind = "throws"
         THEN [NoInfoCall EXCEPT
                 !.pc = "done",
                 !.reply = Sent(500, [error |-> "Failed to get manga info"])]
         ELSE IF \/ Get(mangaData.data, "status") # Num(200)
                 \/ ~Truthy(Get(mangaData.data, "result"))
         THEN [NoInfoCall EXCEPT
                 !.pc = "done",
                 !.reply = Sent(404, [error |-> "Manga not found"])]
         ELSE [NoInfoCall EXCEPT !.pc = "chapters"]
  /\ UNCHANGED <<uniVars, valVars, cacheVars, retryVars, limVars, brVars,
                 scrVars>>

\* fetchApi of chapter page info.page settles: one turn of the while loop
\* and, when the loop ends, the rest of the handler
ChaptersPageSettles ==
  /\ info.pc = "chapters"
  /\ \E chaptersData \in
         {Thrown("fetch failed"), Returned(Obj([status |-> Num(500)]))}
           \cup
         {Returned(Obj([result |-> Obj(result)])) :
            result \in
              UNION {[items : {Arr([i \in DOMAIN numbers |->
                                      Obj([chapter_id |->
                                             Num(Len(info.allChapters) + i),
                                           number |-> Num(numbers[i])])])}]
                       \cup
                     [items : {Arr([i \in DOMAIN numbers |->
                                      Obj([chapter_id |->
                                             Num(Len(info.allChapters) + i),
                                           number |-> Num(numbers[i])])])},
                      pagination :
                        {Obj([current_page |-> Num(info.page),
                              last_page |-> Num(last)]) :
                           last \in {info.page, info.page + 1}}] :
                     numbers \in UNION {[1..k -> 0..2] :
                                          k \in 0..(IF Len(info.allChapters) < MaxRaw
                                                    THEN 1 ELSE 0)}}} :
       IF chaptersData.kind = "throws"
       THEN info' =
              [info EXCEPT
                 !.pc = "done",
                 !.pageLog = Append(@, [page |-> info.page, threw |-> TRUE,
                                        pagination |-> Undefined]),
                 !.reply = Sent(500, [error |-> "Failed to get manga info"])]
       ELSE LET result == Get(chaptersData.data, "result")
                items == IF Truthy(Get(result, "items"))
                         THEN Get(result, "items").v ELSE <<>>
                allChapters == info.allChapters \o items
                log == Append(info.pageLog,
                              [page |-> info.page, threw |-> FALSE,
                               pagination |-> Get(result, "pagination")])
            IN IF hasMore(chaptersData.data) /\ info.page + 1 <= ChapterPageLimit
               THEN info' = [info EXCEPT !.page = @ + 1,
                                         !.allChapters = allChapters,
                                         !.pageLog = log]
               ELSE info' =
                      [info EXCEPT
                         !.pc = "done", !.page = @ + 1,
                         !.allChapters = allChapters, !.pageLog = log,
                         !.reply =
                           Sent(200,
                                [chapters |-> Chapters(allChapters),
                                 totalChapters |-> Len(Chapters(allChapters)),
                                 scanGroups |-> <<>>,
                                 provider |-> "comixto"])]
  /\ UNCHANGED <<uniVars, valVars, cacheVars, retryVars, limVars, brVars,
                 scrVars>>

(***************************************************************************)
(* Specifications.                                                         *)
(***************************************************************************)
InitUnified ==
  /\ PROVIDERS = InitialProviders
  /\ phase = "idle"
  /\ req = Request("", "", "", "")
  /\ order = <<>>
  /\ idx = 1
  /\ attempts = <<>>
  /\ errors = <<>>
  /\ reply = NoReply
  /\ prevInfo = NoInfo

ValidatorIdle == vOp = "none" /\ candidate = Null /\ verdict = "none"

Init ==
  /\ InitUnified
  /\ ValidatorIdle
  /\ CacheIdle
  /\ RetryIdle
  /\ InitLimiter
  /\ InitBrowser
  /\ info = NoInfoCall

Next ==
  \/ InfoStart
  \/ InfoTryProvider
  \/ ReadStart
  \/ ReadTryProvider
  \/ SearchStart
  \/ LatestStart
  \/ AdvancedSearchStart
  \/ GenreStart
  \/ ResultsTryProvider

Spec == Init /\ [][Next]_vars

InitValidator ==
  /\ InitUnified
  /\ CacheIdle
  /\ RetryIdle
  /\ InitLimiter
  /\ InitBrowser
  /\ info = NoInfoCall
  /\ \/ vOp = "info" /\ candidate \in InfoCandidates /\ verdict = "none"
     \/ vOp = "read" /\ candidate \in ReadCandidates /\ verdict = "none"
     \/ vOp = "search" /\ candidate \in SearchCandidates /\ verdict = "none"
     \/ /\ vOp = "stream" /\ verdict = Null
        /\ candidate \in
             [url : {<<"https:", "/", "/", "cdn.example", "/", "show", "/">> \o f \o q :
                       f \in {<<"index", ".m3u8">>, <<"segment001", ".ts">>},
                       q \in {<<>>, <<"?", "token=abc">>,
                              <<"?", "token=a", "/", "b">>}},
              line : {<<"#", "EXTM3U">>, <<"segment001", ".ts">>,
                      <<"low", "/", "index", ".m3u8">>,
                      <<"https:", "/", "/", "cdn2.example", "/", "seg", ".ts">>},
              referer : {<<>>, <<"https:", "/", "/", "hianime.to", "/">>}]
     \/ /\ vOp = "pages" /\ verdict = Null
        /\ candidate \in
             [provider : {"manhuaplus", "manhuaus", "mgeko"},
              els : UNION {[1..k -> {<<>>, <<"https://cdn/", "loading", ".gif">>,
                                    <<"https://cdn/", "a", ".jpg", " ">>,
                                    <<"/", "b", ".jpg">>}] : k \in 0..MaxPages},
              alt : {<<>>, << <<"https://cdn/", "a", ".jpg", " ">> >>}]
     \/ /\ vOp \in {"mu-match", "anilist-match"} /\ verdict = Null
        /\ \E Titles \in {UNION {[1..k -> {"a", "A"}] : k \in 1..MaxStrLen}} :
             candidate \in [title : Titles,
                            titles : UNION {[1..k -> Titles] : k \in 0..2}]

NextValidator ==
  \/ ValidateInfo
  \/ ValidateRead
  \/ ValidateSearch
  \/ Stream
  \/ ReadPages
  \/ MuMatch
  \/ AnilistMatch

SpecValidator == InitValidator /\ [][NextValidator]_vars

InitCache ==
  /\ InitUnified
  /\ ValidatorIdle
  /\ route \in Routes /\ now = 0
  /\ cache = <<>> /\ anilistCache = <<>> /\ muCache = <<>>
  /\ genreCache = <<>>
  /\ calls = [c \in Callers |-> IdleCall]
  /\ fillReply = <<>>
  /\ finished = <<>>
  /\ RetryIdle
  /\ InitLimiter
  /\ InitBrowser
  /\ info = NoInfoCall

NextCache ==
  \/ \E c \in Callers : fetchApi(c)
  \/ \E c \in Callers : fetchApiSettle(c)
  \/ \E c \in Callers : AnilistInfo(c)
  \/ \E c \in Callers : AnilistInfoSettle(c)
  \/ \E c \in Callers : MuSearch(c)
  \/ \E c \in Callers : MuSearchSettle(c)
  \/ \E c \in Callers : MgekoGenre(c)
  \/ \E c \in Callers : MgekoGenreSettle(c)
  \/ Tick

SpecCache == InitCache /\ [][NextCache]_vars

InitRetry ==
  /\ InitUnified
  /\ ValidatorIdle
  /\ CacheIdle
  /\ fwOptions \in
       [maxRetries : {Undefined, Num(0)} \cup {Num(n) : n \in 1..MaxAttempts},
        retryDelay : {Undefined, Num(0), Num(500)}]
  /\ fwPc = "idle" /\ attempt = 1 /\ lastError = Null /\ fwResult = NoReply
  /\ outcomes = <<>> /\ waits = <<>>
  /\ InitLimiter
  /\ InitBrowser
  /\ info = NoInfoCall

NextRetry ==
  \/ fetchWithRetry
  \/ GetSettles
  \/ TimerFires

SpecRetry == InitRetry /\ [][NextRetry]_vars

NextLimiter ==
  \/ \E c \in Callers : wait(c)
  \/ \E c \in Callers : WakeUp(c)
  \/ ClockTick

SpecLimiter == Init /\ [][NextLimiter]_vars

NextBrowser ==
  \/ \E c \in Callers : launch(c)
  \/ \E c \in Callers : getPage(c)
  \/ \E c \in Callers : LaunchSettles(c)
  \/ \E c \in Callers : NewPageSettles(c)
  \/ \E c \in Callers : close(c)
  \/ \E c \in Callers : CloseSettles(c)

SpecBrowser == Init /\ [][NextBrowser]_vars

NextScrape ==
  \/ \E c \in Callers : scrape(c)
  \/ \E c \in Callers : getEpisodeSources(c)
  \/ \E c \in Callers : LaunchSettles(c)
  \/ \E c \in Callers : NewPageSettles(c)
  \/ RequestIntercepted
  \/ ResponseObserved
  \/ GotoSettles
  \/ SelectorSettles
  \/ ContentSettles
  \/ IframeSettles
  \/ SettleWindowEnds

SpecScrape == Init /\ [][NextScrape]_vars

NextInfo ==
  \/ ComixInfo
  \/ ChaptersPageSettles

SpecInfo == Init /\ [][NextInfo]_vars

(***************************************************************************)
(* Properties of the unified routes (specification Spec).                  *)
(***************************************************************************)
Done == phase = "done"

\* the handler ran its provider loop (it did not answer 400)
Served == Done /\ reply.status # 400

\* every provider of the order was tried and none was accepted: each call
\* failed (transport, status, unparseable) or its data was rejected
AllFailed ==
  /\ Len(attempts) = Len(order)
  /\ \A i \in 1..Len(attempts) : attempts[i].valid = "false"

\* the reason the handler gives for a failed attempt
Reason(op, a) ==
  IF ~a.result.success THEN a.result.error
  ELSE IF op = "info" THEN "Invalid data (no chapters or title)"
  ELSE "No valid pages found"

\* C1: in every unified operation, when the first provider's call succeeds
\* and its result passes the operation's validator, no later provider is
\* invoked in that call.
C1_FirstValidProviderEndsTheCall ==
  (attempts # <<>> /\ attempts[1].result.success /\ attempts[1].valid = "true")
    => \A i \in 1..Len(attempts) : i = 1

C1_Witness ==
  /\ Done /\ req.op = "search" /\ reply.status = 200
  /\ Len(attempts) = 1 /\ attempts[1].valid = "true"
  /\ reply.provider = "manhuaplus"

\* C2: a 200 reply of unified info carries the data of the provider that was
\* accepted, names that provider, and its fallback flag is false exactly
\* when that provider is the first one tried; in particular when the first
\* provider's data is rejected and the second's is valid, the reply is the
\* second provider's with fallback true.
C2_InfoReplyNamesProviderAndFallback ==
  (Done /\ req.op = "info" /\ reply.status = 200) =>
    LET n == Len(attempts) IN
      /\ n >= 1
      /\ attempts[n].valid = "true"
      /\ reply.provider = order[n].name
      /\ reply.data = attempts[n].result.data
      /\ reply.fallback = (reply.provider # order[1].name)
      /\ (n = 2 => reply.provider = "manhuaus" /\ reply.fallback = TRUE)

C2_Witness ==
  /\ Done /\ req.op = "info" /\ reply.status = 200
  /\ Len(attempts) = 2
  /\ attempts[1].result.success /\ attempts[1].valid = "false"
  /\ Get(attempts[1].result.data, "chapters") = Arr(<<>>)
  /\ reply.provider = "manhuaus" /\ reply.fallback

\* C3: in unified info and read, when every provider fails (call error or
\* validation rejection), the reply is 404 and its errors list holds one
\* reason per provider tried, in the order tried.
C3_ExhaustedListsOneReasonPerProvider ==
  (Served /\ req.op \in {"info", "read"} /\ AllFailed) =>
    /\ reply.status = 404
    /\ Len(reply.errors) = Len(order)
    /\ \A i \in 1..Len(order) :
         /\ reply.errors[i].provider = order[i].name
         /\ reply.errors[i].msg = Reason(req.op, attempts[i])

C3_Witness ==
  /\ Served /\ req.op = "read" /\ req.preferred = "manhuaus" /\ AllFailed
  /\ reply.status = 404
  /\ attempts[1].result.success /\ ~attempts[2].result.success
  /\ reply.errors[1] = [provider |-> "manhuaus", msg |-> "No valid pages found"]
  /\ reply.errors[2] = [provider |-> "manhuaplus", msg |-> "Status 500"]

C6_NoExceptionLeavesTheHandler ==
  Done => reply.status \in {200, 400, 404}

\* C7: a unified call invokes each provider at most once, in the order of
\* its provider list, at most |PROVIDERS| times, and ends either succeeded
\* at the provider tried last or exhausted after all have failed.
C7_CallIsTryingThenSucceededOrExhausted ==
  /\ Len(attempts) <= Len(PROVIDERS)
  /\ \A i \in 1..Len(attempts) : attempts[i].result.provider = order[i].name
  /\ Served =>
       \/ reply.status = 200 /\ attempts[Len(attempts)].valid = "true"
       \/ reply.status \in {200, 404} /\ AllFailed

\* the position of provider p in PROVIDERS
Position(p) == CHOOSE i \in 1..Len(PROVIDERS) : PROVIDERS[i] = p

\* C8: the order unified read tries is a permutation of PROVIDERS with the
\* preferred provider first and the others in their PROVIDERS order; it is
\* PROVIDERS when no or an unknown provider is preferred; PROVIDERS is not
\* changed.
C8_ReadOrderIsPreferredFirst ==
  /\ PROVIDERS = InitialProviders
  /\ (phase # "idle" /\ req.op = "read" /\ reply.status # 400) =>
       LET known == \E i \in 1..Len(PROVIDERS) : PROVIDERS[i].name = req.preferred IN
         /\ Len(order) = Len(PROVIDERS)
         /\ \A i \in 1..Len(PROVIDERS) : \E j \in 1..Len(order) : order[j] = PROVIDERS[i]
         /\ known => order[1].name = req.preferred
         /\ \A i, j \in 1..Len(order) :
              (i < j /\ order[i].name # req.preferred /\ order[j].name # req.preferred)
                => Position(order[i]) < Position(order[j])
         /\ ~known => order = PROVIDERS
         /\ \A i \in 1..Len(attempts) : attempts[i].result.provider = order[i].name

C8_Witness ==
  /\ Done /\ req.op = "read" /\ req.preferred = "manhuaus"
  /\ Len(attempts) = 2
  /\ attempts[1].result.provider = "manhuaus"
  /\ attempts[2].result.provider = "manhuaplus"

(***************************************************************************)
(* Properties of the validators (specification SpecValidator).             *)
(***************************************************************************)
IsString(x) == x.t = "string"

\* a string with a character that is not white space
NonBlank(x) == IsString(x) /\ \E i \in 1..Len(x.v) : x.v[i] # " "

NonEmptyArray(x) == x.t = "array" /\ Len(x.v) >= 1

\* C9 as claimed: the info validator accepts exactly the candidates whose
\* title is non-empty and whose chapters list is non-empty.
C9_InfoValidIffTitleAndChaptersNonEmpty ==
  (vOp = "info" /\ verdict # "none") =>
    (verdict = "true" <=>
       /\ IsString(Get(candidate, "title")) /\ Get(candidate, "title").v # <<>>
       /\ NonEmptyArray(Get(candidate, "chapters")))

\* C9 as amended: the info validator accepts exactly the candidates whose
\* title is non-empty after trimming white space and whose chapters list is
\* non-empty; a title of white space only is rejected.
C9_InfoValidIffTitleNonBlankAndChaptersNonEmpty ==
  (vOp = "info" /\ verdict # "none") =>
    (verdict = "true" <=>
       /\ NonBlank(Get(candidate, "title"))
       /\ NonEmptyArray(Get(candidate, "chapters")))

C9_Witness ==
  /\ vOp = "info" /\ verdict = "false"
  /\ Get(candidate, "title") = Str(<<" ">>)
  /\ NonEmptyArray(Get(candidate, "chapters"))

\* C10: whenever the read validator returns, it accepts exactly the
\* candidates that are a non-empty page list with at least one page whose
\* image URL is non-empty after trimming; a non-empty list of pages with
\* empty or white-space image URLs is rejected.
C10_ReadValidIffSomePageHasImage ==
  (vOp = "read" /\ verdict \in {"true", "false"}) =>
    (verdict = "true" <=>
       /\ NonEmptyArray(candidate)
       /\ \E i \in 1..Len(candidate.v) :
            candidate.v[i].t = "object" /\ NonBlank(Get(candidate.v[i], "img")))

C10_Witness ==
  /\ vOp = "read" /\ verdict = "false"
  /\ NonEmptyArray(candidate) /\ Len(candidate.v) = 2
  /\ candidate.v[1] = Page(Str(<<>>))
  /\ candidate.v[2] = Page(Str(<<" ">>))

(***************************************************************************)
(* Properties of the results routes of the unified provider                *)
(* (specification Spec).                                                   *)
(***************************************************************************)
\* the provider's call succeeded and its payload carries a non-empty results list
NonEmptyResults(a) ==
  a.result.success /\ NonEmptyArray(Get(a.result.data, "results"))

\* the handler returned at attempt i with that provider's response
StoppedAt(i) ==
  /\ i = Len(attempts)
  /\ Done
  /\ "data" \in DOMAIN reply
  /\ reply.data = attempts[i].result.data
  /\ reply.provider = order[i].name

\* C11: on /search, /latest, /advanced-search and /genre the validator accepts
\* a provider's response iff its results list is non-empty, and the handler
\* stops at a provider exactly when that provider's call succeeded and the
\* validator accepted its data.
C11_ResultsStopAtFirstNonEmptyList ==
  req.op \in ResultsOps =>
    \A i \in 1..Len(attempts) :
      /\ attempts[i].valid = "true" <=> NonEmptyResults(attempts[i])
      /\ StoppedAt(i) <=> NonEmptyResults(attempts[i])

C11_Witness ==
  /\ req.op = "search" /\ Done /\ Len(attempts) = 2
  /\ attempts[1].result.success
  /\ Get(attempts[1].result.data, "results") = Arr(<<>>)
  /\ StoppedAt(2)

(***************************************************************************)
(* Properties of the TTL caches (specification SpecCache).                 *)
(***************************************************************************)
\* the Map of the route under study
TheMap ==
  CASE route = "comixto" -> cache
    [] route = "anilist" -> anilistCache
    [] route = "mangaupdates" -> muCache
    [] OTHER -> genreCache

\* the call of caller c is about a cache key (it did not answer 400)
Keyed(c) == calls[c].pc # "idle" /\ calls[c].key # <<>>

\* the upstream request of caller c settled
Settled(c) == calls[c].pc = "done" /\ calls[c].invoked

\* the settled upstream request of caller c failed: it threw, answered with a
\* non-OK status, or yielded no data
ProducerFailed(c) ==
  LET raw == calls[c].upstream IN
  CASE route = "mangaupdates" -> raw = Null \/ "results" \notin DOMAIN raw.v
    [] route = "anilist" ->
         \/ raw.kind = "throws"
         \/ raw.statusCode \notin 200..299
         \/ raw.payload.v.data.v.Media = Null
    [] OTHER ->
         \/ raw.kind = "throws"
         \/ raw.statusCode \notin 200..299
         \/ raw.payload = Unparseable

\* what the answer of caller c carries as the cached payload
Payload(c) ==
  CASE route = "comixto" -> calls[c].reply.data
    [] route = "mgeko" -> calls[c].reply.body.results
    [] OTHER -> calls[c].reply.body

\* caller c answered with a payload (not with an error)
Answered(c) ==
  IF route = "comixto" THEN calls[c].reply.kind = "returns"
  ELSE calls[c].reply.status = 200

C12_ProducerInvokedIffNoFreshEntry ==
  \A c \in Callers : Keyed(c) =>
    /\ calls[c].invoked <=> (~calls[c].hadEntry \/ calls[c].age >= Ttl(route))
    /\ ~calls[c].invoked =>
         /\ calls[c].pc = "done" /\ Answered(c)
         /\ calls[c].wrote = <<>>

C12_SettledCallStoresItsData ==
  \A c \in Callers :
    (calls[c].pc = "fetching" /\ Settled(c)' /\ ~ProducerFailed(c)') =>
      /\ MapHas(TheMap', calls[c].key)
      /\ TheMap'[calls[c].key] = [data |-> Payload(c)', timestamp |-> now]

\* C12: a call for key k invokes the producer iff there is no entry for k or
\* now - timestamp >= ttl; a fresher entry is served without invoking it; a
\* call at or after the TTL invokes it and, when the producer yields data,
\* stores the data under k with the time of completion as its timestamp.
C12_ProducerInvokedIffAbsentOrExpired ==
  [][C12_ProducerInvokedIffNoFreshEntry' /\ C12_SettledCallStoresItsData]_vars

C12_Witness ==
  \E c \in Callers :
    /\ Settled(c) /\ ~ProducerFailed(c)
    /\ calls[c].hadEntry /\ calls[c].age = Ttl(route)
    /\ TheMap[calls[c].key].timestamp = now
    /\ calls[Other(c)].pc = "done" /\ ~calls[Other(c)].invoked
    /\ calls[Other(c)].age < Ttl(route)

\* C13: a producer call that fails (it throws, answers with a non-OK status,
\* or yields no data) leaves every cache as it was: no entry is created,
\* overwritten or removed.
C13_FailedProducerLeavesCacheAlone ==
  [][\A c \in Callers :
       (calls[c].pc = "fetching" /\ Settled(c)' /\ ProducerFailed(c)') =>
         UNCHANGED <<cache, anilistCache, muCache, genreCache>>]_vars

C13_Witness ==
  \E c \in Callers :
    /\ Settled(c) /\ ProducerFailed(c)
    /\ calls[c].hadEntry
    /\ calls[Other(c)].pc = "idle"
    /\ MapHas(TheMap, calls[c].key)
    /\ now - TheMap[calls[c].key].timestamp >= Ttl(route)

\* caller c was served from the cache
Hit(c) == calls[c].pc = "done" /\ Keyed(c) /\ ~calls[c].invoked

\* C14 as stated: on every cached route the answer served from the cache
\* equals the answer of the call that stored the entry.
C14_HitEqualsFillingResponse ==
  \A c \in Callers : Hit(c) => calls[c].reply = calls[c].origin[1]

\* a response body with the field cached: true added
WithCachedFlag(body) ==
  [f \in DOMAIN body \cup {"cached"} |-> IF f = "cached" THEN TRUE ELSE body[f]]

\* C14, amended: the answer served from the cache equals the answer of the
\* call that stored the entry on comixto, AniList and MangaUpdates; on the
\* mgeko genre route it is that answer with the field cached: true added.
C14_HitEqualsFillingResponseUpToCachedFlag ==
  \A c \in Callers : Hit(c) =>
    IF route = "mgeko"
    THEN /\ calls[c].reply.status = calls[c].origin[1].status
         /\ calls[c].reply.body = WithCachedFlag(calls[c].origin[1].body)
    ELSE calls[c].reply = calls[c].origin[1]

C14_Witness ==
  \E c \in Callers :
    /\ route = "mgeko" /\ Hit(c)
    /\ calls[c].reply.body.hasNextPage
    /\ calls[c].reply.body.currentPage = Num(2)
    /\ "cached" \notin DOMAIN calls[c].origin[1].body

\* the current calls of both callers were for the same key and both started
\* before either completed
Concurrent(c, d) ==
  /\ c # d
  /\ calls[c].pc = "done" /\ calls[d].pc = "done"
  /\ calls[c].overlapped /\ calls[d].overlapped

\* of two completed calls, c completed last
CompletedLast(c) == Len(finished) = 2 /\ finished[2] = c

\* C15: two concurrent fetches for the same key that both start before either
\* completes each invoke the producer; after both complete the Map holds one
\* entry for the key, the one written by the call that wrote last.
C15_ConcurrentMissesBothFetchLastWriterWins ==
  \A c, d \in Callers : Concurrent(c, d) =>
    /\ calls[c].key = calls[d].key
    /\ calls[c].invoked /\ calls[d].invoked
    /\ (CompletedLast(c) /\ calls[c].wrote # <<>>) =>
         TheMap[calls[c].key] = calls[c].wrote[1]
    /\ (CompletedLast(c) /\ calls[c].wrote = <<>> /\ calls[d].wrote # <<>>) =>
         TheMap[calls[c].key] = calls[d].wrote[1]

C15_Witness ==
  \E c, d \in Callers :
    /\ Concurrent(c, d) /\ CompletedLast(c)
    /\ calls[c].wrote # <<>> /\ calls[d].wrote # <<>>
    /\ calls[c].wrote # calls[d].wrote
    /\ TheMap[calls[c].key] = calls[c].wrote[1]

(***************************************************************************)
(* Properties of fetchWithRetry (specification SpecRetry).                 *)
(***************************************************************************)
\* the number of attempts the call is allowed: the option, 3 when not given
AllowedAttempts ==
  IF fwOptions.maxRetries \in {Undefined, Num(0)} THEN 3 ELSE fwOptions.maxRetries.v

\* the base delay of the call: the option, 1000 ms when not given
BaseDelay ==
  IF fwOptions.retryDelay \in {Undefined, Num(0)} THEN 1000 ELSE fwOptions.retryDelay.v

Succeeded(raw) == raw.kind = "response" /\ raw.statusCode \in 200..299

\* C16: fetchWithRetry makes at most maxRetries attempts (3 by default); it
\* returns the body of the first successful attempt and attempts nothing
\* after it; when all maxRetries attempts fail it throws the last error.
C16_AtMostMaxRetriesAttemptsFirstSuccessReturned ==
  /\ Len(outcomes) <= AllowedAttempts
  /\ \A i \in 1..Len(outcomes) - 1 : ~Succeeded(outcomes[i])
  /\ (Len(outcomes) > 0 /\ Succeeded(outcomes[Len(outcomes)])) =>
       /\ fwPc = "returned"
       /\ fwResult = Returned(outcomes[Len(outcomes)].payload)
  /\ fwPc = "returned" => Succeeded(outcomes[Len(outcomes)])
  /\ fwPc = "thrown" =>
       /\ Len(outcomes) = AllowedAttempts
       /\ ~Succeeded(outcomes[Len(outcomes)])
       /\ fwResult = Thrown(outcomes[Len(outcomes)])

C16_Witness ==
  /\ fwOptions.maxRetries = Undefined
  /\ fwPc = "returned" /\ Len(outcomes) = 3
  /\ outcomes[1] = Rejects /\ outcomes[2] = Response(500, Null)

\* C17: the wait after the k-th failed attempt is retryDelay * 2^(k-1); there
\* is no wait after the final failure; with the defaults the waits are 1000
\* and then 2000 ms.
C17_WaitsDoubleFromRetryDelay ==
  /\ \A k \in 1..Len(waits) :
       /\ waits[k] = BaseDelay * 2 ^ (k - 1)
       /\ ~Succeeded(outcomes[k])
  /\ fwPc \in {"get", "returned"} => Len(waits) = attempt - 1
  /\ fwPc = "sleep" => Len(waits) = attempt
  /\ fwPc = "thrown" => Len(waits) = Len(outcomes) - 1
  /\ (fwPc = "thrown" /\ fwOptions = [maxRetries |-> Undefined, retryDelay |-> Undefined]) =>
       waits = <<1000, 2000>>

C17_Witness ==
  /\ fwPc = "thrown"
  /\ fwOptions = [maxRetries |-> Undefined, retryDelay |-> Undefined]
  /\ waits = <<1000, 2000>>

\* a failure that a retry cannot cure: a 4xx status other than 429
NonTransient(raw) ==
  raw.kind = "response" /\ raw.statusCode \in 400..499 /\ raw.statusCode # 429

\* C18: a non-transient failure (a 4xx status other than 429) ends
\* fetchWithRetry after that single attempt: the error is thrown without a
\* wait and without another attempt.
C18_NonTransientFailureIsNotRetried ==
  \A i \in 1..Len(outcomes) :
    NonTransient(outcomes[i]) =>
      /\ i = 1 /\ Len(outcomes) = 1
      /\ fwPc = "thrown" /\ waits = <<>>

(***************************************************************************)
(* Properties of the rate limiter (specification SpecLimiter).             *)
(***************************************************************************)
\* C19: any two completed calls of the shared rateLimiter.wait(), concurrent
\* ones included, complete at least minDelay (500 ms) apart.
C19_CompletionsAreMinDelayApart ==
  \A i, j \in 1..Len(completions) :
    i < j => completions[j] - completions[i] >= 500

(***************************************************************************)
(* Properties of BrowserService (specification SpecBrowser).               *)
(***************************************************************************)
\* browser process b can still be closed: this.browser refers to it, or a
\* close() of it is in progress
Reachable(b) ==
  browser = b \/ \E c \in Callers : tasks[c].pc = "closing" /\ tasks[c].target = b

\* C20: under any interleaving of launch, getPage and close at most one
\* browser process is live; no launch is started while a browser exists or
\* another launch is in progress; no live browser is unreachable.
C20_AtMostOneBrowserNoneLeaked ==
  /\ Cardinality(live) <= 1
  /\ Cardinality({c \in Callers : tasks[c].pc = "launching"}) <= 1
  /\ \A c \in Callers : tasks[c].pc = "launching" => live = {}
  /\ \A b \in live : Reachable(b)

(***************************************************************************)
(* Properties of the scraping operations (specification SpecScrape).       *)
(***************************************************************************)
\* the operation in progress has returned or thrown
Ended == job.pc \in {"returned", "thrown"}

\* the responses seen by the listener that pass its test, oldest first
VideoStreams == SelectSeq(job.seen, IsVideoStream)

\* C21: when scrape, scrapeFast, scrapeDynamic or getEpisodeSources returns
\* or throws, the page it opened has been closed, also when the page setup
\* in getPage failed after the page was opened.
C21_EndedOperationClosedItsPage == Ended => job.page \notin openPages

\* C22: getEpisodeSources returns the URL of the first response that passed
\* the listener's test; later matching responses do not replace it.
C22_FirstMatchingResponseIsReturned ==
  (job.op = "getEpisodeSources" /\ job.pc = "returned" /\ VideoStreams # <<>>)
    => job.result.data.v.download = Str(Head(VideoStreams))

\* C23: when the first navigation succeeded and no response passed the test
\* by the end of the settle window (the iframe missing or its navigation
\* failed included), getEpisodeSources does not throw and its result is null.
C23_NoMatchYieldsNull ==
  (job.op = "getEpisodeSources" /\ Ended /\ job.iframe # "none"
     /\ VideoStreams = <<>>)
    => job.pc = "returned" /\ job.result.data.t = "null"

\* C24: when the selector wait of scrape or scrapeDynamic timed out, the call
\* still returns the content of the page.
C24_SelectorTimeoutStillReturnsContent ==
  (Ended /\ job.waited = "timeout")
    => job.pc = "returned" /\ job.result = Returned(Str(<<"content">>))

\* C27: every intercepted request of a scrape's page is resolved exactly
\* once (aborted or continued), also on the page of getEpisodeSources, which
\* has two request handlers.
C27_EachRequestResolvedOnce ==
  \A i \in DOMAIN requests : Len(requests[i]) = 1

(***************************************************************************)
(* Properties of the m3u8 rewriting (specification SpecValidator).         *)
(***************************************************************************)
\* the directory of the path of url: the parts up to the last "/" before
\* the query string
Directory(url) ==
  LET path == IF \E i \in DOMAIN url : url[i] = "?"
              THEN SubSeq(url, 1, (CHOOSE i \in DOMAIN url : url[i] = "?") - 1)
              ELSE url
  IN SubSeq(path, 1, CHOOSE i \in DOMAIN path :
                       /\ path[i] = "/"
                       /\ \A j \in DOMAIN path : path[j] = "/" => j <= i)

\* C25: for an m3u8 URL u, with or without a query string, a relative line
\* that names a segment or a sub-playlist is rewritten to the proxy URL
\* whose url parameter is the line resolved against the directory of u's
\* path, with the referer parameter when a referer was supplied.
C25_RelativeLineResolvedAgainstDirectory ==
  (/\ vOp = "stream" /\ verdict # Null
   /\ \E i \in DOMAIN candidate.url : candidate.url[i] = ".m3u8"
   /\ Head(candidate.line) \notin {"#", "http:", "https:"})
    => verdict =
         Str(<<"http://localhost:3000/proxy/stream?url=">>
               \o encodeURIComponent(Directory(candidate.url) \o candidate.line)
               \o (IF candidate.referer # <<>>
                   THEN <<"&referer=">> \o encodeURIComponent(candidate.referer)
                   ELSE <<>>))

(***************************************************************************)
(* Properties of the page lists (specification SpecValidator).             *)
(***************************************************************************)
\* C26: the page list of a read operation carries the page numbers 1..n in
\* ascending order without gaps, also when image elements were skipped.
C26_PageNumbersAreGapless ==
  (vOp = "pages" /\ verdict # Null)
    => \A k \in DOMAIN verdict.v : verdict.v[k].v.page = Num(k)

(***************************************************************************)
(* Properties of the match confidence (specification SpecValidator).       *)
(***************************************************************************)
\* C28: the confidence sent by GET /match of MangaUpdates and of AniList is
\* an integer from 0 to 100, also when one title is a short part of the
\* other.
C28_ConfidenceIsFrom0To100 ==
  (vOp \in {"mu-match", "anilist-match"} /\ verdict # Null)
    => verdict.v \in 0..100

(***************************************************************************)
(* Properties of comixto GET /info/:id (specification SpecInfo).           *)
(***************************************************************************)
\* the call answered 200 with a chapter list
InfoSent == info.pc = "done" /\ info.reply.status = 200

\* C29: the chapters list has one entry per distinct chapter number, in
\* strictly descending order of the number, and the versions arrays together
\* hold every raw chapter fetched exactly once, under the entry of its
\* number: versions of one number are neither dropped nor merged.
C29_OneEntryPerNumberEveryVersionKept ==
  InfoSent =>
    LET chapters == info.reply.body.chapters
        raw == info.allChapters
        Places(k) ==
          {p \in (DOMAIN chapters) \X (1..Len(raw)) :
             /\ p[2] \in DOMAIN chapters[p[1]].v.versions.v
             /\ chapters[p[1]].v.versions.v[p[2]] = formatChapter(raw[k])}
    IN /\ \A i, j \in DOMAIN chapters :
            i < j => chapters[i].v.number.v > chapters[j].v.number.v
       /\ {chapters[i].v.number : i \in DOMAIN chapters}
            = {raw[k].v.number : k \in DOMAIN raw}
       /\ \A k \in DOMAIN raw :
            /\ Cardinality(Places(k)) = 1
            /\ \A p \in Places(k) : chapters[p[1]].v.number = raw[k].v.number
       /\ \A i \in DOMAIN chapters :
            \A v \in DOMAIN chapters[i].v.versions.v :
              \E k \in DOMAIN raw : <<i, v>> \in Places(k)

\* a list was sent for three raw chapters of which two share their number
C29_Witness ==
  /\ InfoSent
  /\ Len(info.allChapters) = 3
  /\ Len(info.reply.body.chapters) = 2

\* the pagination data of a logged page say that more pages follow
MorePages(entry) ==
  LET current == Get(entry.pagination, "current_page")
      last == Get(entry.pagination, "last_page")
  IN current.t = "number" /\ last.t = "number" /\ current.v < last.v

\* C30: the chapter loop fetches the pages 1, 2, ... in order and at most 50
\* of them; it goes on only after a page whose current_page is below its
\* last_page, and ends after the first page that does not say so, or after
\* page 50; when fetchApi throws on a page the call answers 500 with the
\* error and no chapter list.
C30_ChapterLoopStopsAndFailsWhole ==
  LET log == info.pageLog IN
  /\ Len(log) <= 50
  /\ \A i \in DOMAIN log : log[i].page = i
  /\ \A i \in DOMAIN log : i < Len(log) => ~log[i].threw /\ MorePages(log[i])
  /\ (info.pc = "chapters" /\ log # <<>>) => MorePages(log[Len(log)])
  /\ (info.pc = "done" /\ log # <<>>) =>
       IF log[Len(log)].threw
       THEN info.reply = Sent(500, [error |-> "Failed to get manga info"])
       ELSE /\ info.reply.status = 200
            /\ ~MorePages(log[Len(log)]) \/ Len(log) = 50

\* the loop ended at the limit: page 50 still announced more pages
C30_Witness ==
  /\ InfoSent
  /\ Len(info.pageLog) = 50
  /\ MorePages(info.pageLog[50])

====
